---- MODULE Spec2Model ----
(***************************************************************************)
(* A model of the cfdm property container (core.abstract.Properties and    *)
(* mixin.Properties) and of the constructs composed from it.               *)
(*                                                                         *)
(* Python objects are modelled with their identity: a value heap (mutable  *)
(* property values, bounds objects, ancillary objects) and a dict heap     *)
(* (the dict objects that hold properties and ancillaries).  An instance   *)
(* is a record of its components; a component that refers to an object     *)
(* holds the object's address, 0 standing for "not set".                   *)
(***************************************************************************)
EXTENDS Integers, Sequences, FiniteSets, TLC

\* ------------------------------------------------------------------------
\* Bounds of the model
\* ------------------------------------------------------------------------
\* Number of addresses of the value heap.
MaxVal == 14
\* Number of addresses of the dict heap.
MaxDict == 12
MaxOpens == 3
\* The largest count, the most features, the longest logical axis and the
\* longest list of a compressed backing
MaxCount == 3
MaxFeatures == 3
MaxAxis == 5
MaxList == 3

ValAddr == 1..MaxVal
DictAddr == 1..MaxDict

\* Property names used by the store.
StoreNames == {"project", "foo"}
\* Contents a mutable value object can have.
Contents == {"CMIP7", "bar"}
\* Values a caller passes as the default of get_property: None and 0 are falsy.
DefaultVals == {"None", "0", "d"}
\* The two instances the model follows.
Inst == {"p", "q"}

Other(i) == IF i = "p" THEN "q" ELSE "p"

EmptyMap == [x \in {} |-> 0]

\* d[k] = v, for a dict held as a function
Put(f, k, v) == [x \in (DOMAIN f) \cup {k} |-> IF x = k THEN v ELSE f[x]]

\* d.pop(k, None), the dict that is left
Pop(f, k) == [x \in (DOMAIN f) \ {k} |-> f[x]]

Range(f) == {f[x] : x \in DOMAIN f}

Min(S) == CHOOSE x \in S : \A y \in S : x <= y

VARIABLES
    valHeap,    \* value heap: address -> content, "free" when unallocated
    dictHeap,   \* dict heap: address -> [live, items]
    inst,       \* the instances: their class and components
    callerVal,  \* the object the caller last passed to set_property (0: none)
    callerMap,  \* the dict the caller last passed to properties() (0: none)
    hist,       \* per instance and name: what was last stored and not deleted
    prior,      \* what hist held, before the last call, for the name it was about
    last,       \* the last call made
    ret,        \* what the last call returned
    eq,         \* an equals call: its arguments and, once made, its result
    nm,         \* a names call: its arguments and, once made, its result
    nca,        \* the components of an on-disk backing (a NetCDFArray)
    files,      \* the storage collaborator's counts of opens and closes
    acc,        \* the last call on the backing and what it returned
    cmp         \* a compressed backing and the last call on it

vars == <<valHeap, dictHeap, inst, callerVal, callerMap, hist, prior, last, ret,
          eq, nm, nca, files, acc, cmp>>

\* The variables of the property store and of the pure calls; those of the
\* on-disk backing and of the compressed one
storeVars == <<valHeap, dictHeap, inst, callerVal, callerMap, hist, prior, last,
               ret, eq, nm>>
ncVars == <<nca, files, acc, cmp>>

\* ------------------------------------------------------------------------
\* The object heaps
\* ------------------------------------------------------------------------
FreeVals(vh) == {a \in ValAddr : vh[a] = "free"}
FreeDicts(dh) == {a \in DictAddr : ~dh[a].live}

DeadDict == [live |-> FALSE, items |-> EmptyMap]

\* The number of elements of S below x, and the element of S with k below it
Rank(x, S) == Cardinality({y \in S : y < x})
Nth(S, k) == CHOOSE x \in S : Rank(x, S) = k

\* A new value object holding content c
NewValAt(vh, c, a) == [vh |-> [vh EXCEPT ![a] = c], addr |-> a]
NewVal(vh, c) == NewValAt(vh, c, Min(FreeVals(vh)))

\* A new dict object holding items
NewDictAt(dh, items, a) ==
    [dh |-> [dh EXCEPT ![a] = [live |-> TRUE, items |-> items]], addr |-> a]
NewDict(dh, items) == NewDictAt(dh, items, Min(FreeDicts(dh)))

\* copy.deepcopy of a mutable value object: a new object, equal content
deepcopy_value(vh, a) == NewVal(vh, vh[a])

\* copy.deepcopy of a dict's items: every distinct value object is copied
\* once (deepcopy's memo keeps two keys that share an object sharing one
\* copy); memo maps each object to its copy
deepcopy_with(vh, items, memo) ==
    [vh |-> [a \in ValAddr |->
                IF \E o \in DOMAIN memo : memo[o] = a
                THEN vh[CHOOSE o \in DOMAIN memo : memo[o] = a]
                ELSE vh[a]],
     items |-> [n \in DOMAIN items |-> memo[items[n]]]]
deepcopy_memo(olds, free) == [o \in olds |-> Nth(free, Rank(o, olds))]
deepcopy_items(vh, items) ==
    deepcopy_with(vh, items, deepcopy_memo(Range(items), FreeVals(vh)))

\* The contents of a dict's values, by name
View(vh, dh, d) == [n \in DOMAIN dh[d].items |-> vh[dh[d].items[n]]]

\* ------------------------------------------------------------------------
\* What a call returns
\* ------------------------------------------------------------------------
\* kind: "none" (None), "obj" (a heap object: its address and its content when
\* returned), "imm" (an immediate value, in c), "bool" (in c), "map" (a new
\* dict, its values' contents by name, in map), "raise" (the exception, in c)
Ret(kind, addr, c, map) == [kind |-> kind, addr |-> addr, c |-> c, map |-> map]
RetNone == Ret("none", 0, "None", EmptyMap)
RetObj(vh, a) == Ret("obj", a, vh[a], EmptyMap)
RetImm(x) == Ret("imm", 0, x, EmptyMap)
RetBool(b) == Ret("bool", 0, IF b THEN "True" ELSE "False", EmptyMap)
RetMap(m) == Ret("map", 0, "dict", m)
RetRaise(e) == Ret("raise", 0, e, EmptyMap)

\* ------------------------------------------------------------------------
\* core.abstract.Properties
\* ------------------------------------------------------------------------
\* self is an instance record; self.props is the address of the dict held as
\* the 'properties' component.
\* made says how the instance came to be: "init", "source" or "copy".
NoInst == [live |-> FALSE, cls |-> "none", made |-> "none", props |-> 0,
           bounds |-> 0, cell_type |-> "None", anc |-> 0, data |-> "None"]

\* has_property: prop in self._get_component('properties')
has_property(dh, self, prop) == prop \in DOMAIN dh[self.props].items

\* (a variant that tests the default's value, not its presence)
get_property_falsy(vh, dh, self, prop, default) ==
    IF prop \in DOMAIN dh[self.props].items
    THEN RetObj(vh, dh[self.props].items[prop])
    ELSE IF Len(default) > 0 /\ default[1] \notin {"None", "0"}
         THEN RetImm(default[1])
         ELSE RetRaise("AttributeError")

\* get_property(prop, *default): default is the tuple of the extra arguments
get_property(vh, dh, self, prop, default) ==
    LET d == dh[self.props].items
    IN IF prop \in DOMAIN d THEN RetObj(vh, d[prop])
       ELSE IF Len(default) > 0 THEN RetImm(default[1])
       ELSE RetRaise("AttributeError")

\* (a variant that reads the value and leaves it in the dict)
del_property_keep(vh, dh, self, prop) ==
    [ret |-> IF prop \in DOMAIN dh[self.props].items
             THEN RetObj(vh, dh[self.props].items[prop]) ELSE RetNone,
     vh |-> vh, dh |-> dh, self |-> self]

\* del_property: self._get_component('properties').pop(prop, None)
del_property(vh, dh, self, prop) ==
    LET d == dh[self.props].items
    IN [ret |-> IF prop \in DOMAIN d THEN RetObj(vh, d[prop]) ELSE RetNone,
        vh |-> vh,
        dh |-> [dh EXCEPT ![self.props].items = Pop(@, prop)],
        self |-> self]

\* (a variant that stores the caller's object whatever copy is)
set_property_nocopy(vh, dh, self, prop, value, copy) ==
    [ret |-> RetNone, vh |-> vh,
     dh |-> [dh EXCEPT ![self.props].items = Put(@, prop, value)],
     self |-> self]

\* set_property(prop, value, copy): value is the address of the caller's object
set_property(vh, dh, self, prop, value, copy) ==
    LET cp == IF copy THEN deepcopy_value(vh, value)
              ELSE [vh |-> vh, addr |-> value]
    IN [ret |-> RetNone,
        vh |-> cp.vh,
        dh |-> [dh EXCEPT ![self.props].items = Put(@, prop, cp.addr)],
        self |-> self]

\* properties(properties=None, copy=True): props is the address of the
\* caller's dict, 0 for None.  out is the address of the new dict returned.
properties_set(out, cp, nd, self) ==
    [out |-> out.addr, vh |-> cp.vh, dh |-> nd.dh,
     self |-> [self EXCEPT !.props = nd.addr]]
properties_replace(out, cp, self) ==
    properties_set(out, cp, NewDict(out.dh, cp.items), self)
\* (a variant that takes an empty replacement for no replacement)
properties_out_truthy(vh, out, self, props, copy) ==
    IF props = 0 \/ DOMAIN out.dh[props].items = {}
    THEN [out |-> out.addr, vh |-> vh, dh |-> out.dh, self |-> self]
    ELSE properties_replace(out,
                            IF copy THEN deepcopy_items(vh, out.dh[props].items)
                            ELSE [vh |-> vh, items |-> out.dh[props].items],
                            self)
properties_out(vh, out, self, props, copy) ==
    IF props = 0
    THEN [out |-> out.addr, vh |-> vh, dh |-> out.dh, self |-> self]
    ELSE properties_replace(out,
                            IF copy THEN deepcopy_items(vh, out.dh[props].items)
                            ELSE [vh |-> vh, items |-> out.dh[props].items],
                            self)
properties(vh, dh, self, props, copy) ==
    properties_out(vh, NewDict(dh, dh[self.props].items), self, props, copy)

\* The source argument of a constructor: given is FALSE for source=None;
\* caps are the accessors the source object provides and obj its components.
Accessors == {"properties", "get_bounds", "get_cell_type", "get_ancillaries"}
NoSource == [given |-> FALSE, caps |-> {}, obj |-> NoInst]
Source(obj, caps) == [given |-> TRUE, caps |-> caps, obj |-> obj]

\* Properties.__init__(properties, source, copy) for an instance of class cls:
\* props is the address of the caller's dict (0 for None).  A source
\* without properties() raises AttributeError there, which sets properties
\* to None.  sp is the properties argument after the source was looked at.
NewInst(cls, d) == [live |-> TRUE, cls |-> cls, made |-> "init", props |-> d,
                    bounds |-> 0, cell_type |-> "None", anc |-> 0,
                    data |-> "None"]
\* exc is the exception the constructor lets out ("none": it returns).
Properties__init__set(vh, self0, sp, copy) ==
    IF sp.exc = "none" /\ sp.addr # 0 /\ DOMAIN sp.dh[sp.addr].items # {}
    THEN [exc |-> "none"] @@ properties(vh, sp.dh, self0, sp.addr, copy)
    ELSE [exc |-> sp.exc, out |-> 0, vh |-> vh, dh |-> sp.dh, self |-> self0]
source_properties(r) == [exc |-> "none", dh |-> r.dh, addr |-> r.out]
\* try: properties = source.properties()
\* except AttributeError: properties = None
try_properties(vh, dh, source) ==
    IF "properties" \in source.caps
    THEN source_properties(properties(vh, dh, source.obj, 0, TRUE))
    ELSE [exc |-> "none", dh |-> dh, addr |-> 0]
Properties__init__source(vh, d1, cls, props, source, copy) ==
    Properties__init__set(vh, NewInst(cls, d1.addr),
        IF source.given
        THEN try_properties(vh, d1.dh, source)
        ELSE [exc |-> "none", dh |-> d1.dh, addr |-> props],
        copy)
Properties__init__(vh, dh, cls, props, source, copy) ==
    Properties__init__source(vh, NewDict(dh, EmptyMap), cls, props, source, copy)

\* (a variant that hands back the instance itself)
Properties_copy_same(vh, dh, self) ==
    [exc |-> "none", out |-> 0, vh |-> vh, dh |-> dh, self |-> self]

\* Properties.copy: type(self)(source=self, copy=True)
Properties_copy(vh, dh, self) ==
    Properties__init__(vh, dh, self.cls, 0, Source(self, {"properties"}), TRUE)

\* ------------------------------------------------------------------------
\* The record of what was stored
\* ------------------------------------------------------------------------
\* hist[i][n] says what the calls made so far stored under n in instance i:
\* nothing ("absent"), a copy of a value whose content was c ("copy"), or the
\* caller's own object a ("ref").
AbsentH == [k |-> "absent", c |-> "-", a |-> 0]
CopyH(c) == [k |-> "copy", c |-> c, a |-> 0]
RefH(a) == [k |-> "ref", c |-> "-", a |-> a]
NoHist == [n \in StoreNames |-> AbsentH]

\* hist for a mapping installed from the dict items, whose values were
\* copied (copy) or not
InstalledH(vh, items, copy) ==
    [n \in StoreNames |->
        IF n \in DOMAIN items
        THEN IF copy THEN CopyH(vh[items[n]]) ELSE RefH(items[n])
        ELSE AbsentH]

\* The call made: the operation, the instance, the name, the copy flag, the
\* default tuple and the contents of the mapping passed
\* (for a construction from a source: the accessors the source provides)
CallM(op, i, n, copy, dflt, m) ==
    [op |-> op, i |-> i, n |-> n, copy |-> copy, dflt |-> dflt, m |-> m,
     caps |-> {}]
Call(op, i, n, copy, dflt) == CallM(op, i, n, copy, dflt, EmptyMap)
CallS(op, i, n, copy, caps) ==
    [Call(op, i, n, copy, <<>>) EXCEPT !.caps = caps]

\* ------------------------------------------------------------------------
\* Garbage collection
\* ------------------------------------------------------------------------
\* An address says nothing but which object it is.  After every call the
\* objects nothing refers to any more are dropped and the others are numbered
\* in the order in which the instances and the caller reach them.
AllNamesSeq == <<"anc", "foo", "project">>

\* seq without its zeros and without repeats, first occurrences kept
DedupAdd(done, x) ==
    IF x = 0 \/ \E j \in 1..Len(done) : done[j] = x THEN done ELSE Append(done, x)
Dedup(seq) ==
    LET F[k \in 0..Len(seq)] == IF k = 0 THEN <<>> ELSE DedupAdd(F[k-1], seq[k])
    IN F[Len(seq)]

\* The position of x in seq, 0 when it is not there
Index(seq, x) ==
    IF \E j \in 1..Len(seq) : seq[j] = x
    THEN CHOOSE j \in 1..Len(seq) : seq[j] = x
    ELSE 0

\* The values of a dict's items in the order of their names
ItemsSeq(items) ==
    LET F[k \in 0..Len(AllNamesSeq)] ==
            IF k = 0 THEN <<>>
            ELSE IF AllNamesSeq[k] \in DOMAIN items
                 THEN Append(F[k-1], items[AllNamesSeq[k]])
                 ELSE F[k-1]
    IN F[Len(AllNamesSeq)]

DictRoots(in, cm) ==
    Dedup(<<in["p"].props, in["p"].anc, in["q"].props, in["q"].anc, cm>>)

ValRoots(dh, in, cv, r, dseq) ==
    LET F[k \in 0..Len(dseq)] ==
            IF k = 0 THEN <<>> ELSE F[k-1] \o ItemsSeq(dh[dseq[k]].items)
    IN Dedup(F[Len(dseq)] \o <<in["p"].bounds, in["q"].bounds, cv, r.addr>>)

CollectedWith(vh, dh, in, cv, cm, h, r, dseq, vseq) ==
    [vh |-> [a \in ValAddr |-> IF a <= Len(vseq) THEN vh[vseq[a]] ELSE "free"],
     dh |-> [a \in DictAddr |->
               IF a <= Len(dseq)
               THEN [live |-> TRUE,
                     items |-> [n \in DOMAIN dh[dseq[a]].items |->
                                   Index(vseq, dh[dseq[a]].items[n])]]
               ELSE DeadDict],
     in |-> [i \in Inst |-> [in[i] EXCEPT !.props = Index(dseq, @),
                                          !.anc = Index(dseq, @),
                                          !.bounds = Index(vseq, @)]],
     cv |-> Index(vseq, cv),
     cm |-> Index(dseq, cm),
     h  |-> [i \in DOMAIN h |->
               [n \in DOMAIN h[i] |-> [h[i][n] EXCEPT !.a = Index(vseq, @)]]],
     r  |-> [r EXCEPT !.addr = Index(vseq, @)]]
CollectedDicts(vh, dh, in, cv, cm, h, r, dseq) ==
    CollectedWith(vh, dh, in, cv, cm, h, r, dseq, ValRoots(dh, in, cv, r, dseq))
Collected(vh, dh, in, cv, cm, h, r) ==
    CollectedDicts(vh, dh, in, cv, cm, h, r, DictRoots(in, cm))

\* What hist holds for the instance and the name the call l is about
PriorOf(h, l) ==
    IF l.i \in Inst /\ l.n \in StoreNames THEN h[l.i][l.n] ELSE AbsentH

\* The state after a call: the call's outcome, collected
\* (h0 is hist as the call found it, h as the call leaves it)
Commit(vh, dh, in, cv, cm, h0, h, l, r) ==
    \E g \in {Collected(vh, dh, in, cv, cm,
                         [k \in Inst \cup {"prior"} |->
                             IF k = "prior" THEN [x \in {"-"} |-> PriorOf(h0, l)]
                             ELSE h[k]], r)} :
       /\ valHeap' = g.vh
       /\ dictHeap' = g.dh
       /\ inst' = g.in
       /\ callerVal' = g.cv
       /\ callerMap' = g.cm
       /\ hist' = [i \in Inst |-> g.h[i]]
       /\ prior' = g.h["prior"]["-"]
       /\ last' = l
       /\ ret' = g.r
       /\ eq' = eq
       /\ nm' = nm
       /\ UNCHANGED ncVars

\* Enough room in the heaps for a call that makes nv values and nd dicts
Room(nv, nd) ==
    /\ Cardinality(FreeVals(valHeap)) >= nv
    /\ Cardinality(FreeDicts(dictHeap)) >= nd

\* ------------------------------------------------------------------------
\* The property store: the calls a caller makes
\* ------------------------------------------------------------------------
NoDefault == <<>>
Defaults == {NoDefault} \cup {<<d>> : d \in DefaultVals}

EmptyValHeap == [a \in ValAddr |-> "free"]
EmptyDictHeap == [a \in DictAddr |-> DeadDict]

\* A value that may be None
None == [none |-> TRUE]
Some(x) == [none |-> FALSE, v |-> x]

\* The outcomes of a call
Raise(exc, at, cause, file) ==
    [kind |-> "raise", exc |-> exc, at |-> at, cause |-> cause, file |-> file]
Returned(kind, value) == [kind |-> kind, value |-> value]

\* The indices of an element access: Ellipsis, or positions along the first
\* dimension
Ellipsis == [all |-> TRUE, at |-> <<>>]
Take(at) == [all |-> FALSE, at |-> at]
Indices == {Ellipsis, Take(<<2, 1>>), Take(<<1, 3>>)}

\* The storage collaborator's count of the calls of Dataset() that opened a
\* file and of Dataset.close()
NoFiles == [opens |-> 0, closes |-> 0]

\* The backing before it is constructed; a component that was not set reads
\* as None ("None" for a name)
NoArray ==
    [made |-> FALSE, shape |-> None, filename |-> "None", ncvar |-> "None",
     varid |-> None, group |-> None, dtype |-> "None", mask |-> TRUE,
     close |-> TRUE]

\* What is kept of the last call on the backing: the call, what it returned,
\* the components and the counts before it, the last results of to_memory()
\* and of a full fetch, the result of to_memory() before this call
Access(op, q, indices, r, before, files0, mem, full) ==
    [op |-> op, q |-> q, indices |-> indices, ret |-> r, before |-> before,
     files0 |-> files0, mem |-> mem, full |-> full,
     prev |-> IF op \in {"__init__", "source", "none"} THEN None ELSE acc.mem]
NoAccess ==
    Access("none", "", Ellipsis, Returned("none", <<>>), NoArray, NoFiles, None, None)

\* The compressed backing before it is constructed: its kind, its index map
\* (a count array or a list array), the physical array, the length of the
\* logical axis, the outcome of the construction and the last fetch
NoCompressed ==
    [kind |-> "none", map |-> <<>>, physical |-> <<>>, n |-> 0,
     made |-> Returned("none", <<>>), op |-> "none", indices |-> Ellipsis,
     ret |-> Returned("none", <<>>)]

InitNc == nca = NoArray /\ files = NoFiles /\ acc = NoAccess /\ cmp = NoCompressed

\* No equals call, no names call is looked at
EqIdle == [made |-> FALSE]
NmIdle == [made |-> FALSE]

\* p = Properties()
InitStore ==
    LET r == Properties__init__(EmptyValHeap, EmptyDictHeap, "Properties",
                                0, NoSource, TRUE)
        in == [i \in Inst |-> IF i = "p" THEN r.self ELSE NoInst]
        h == [i \in Inst |-> NoHist]
        g == Collected(r.vh, r.dh, in, 0, 0, h, RetNone)
    IN /\ valHeap = g.vh
       /\ dictHeap = g.dh
       /\ inst = g.in
       /\ callerVal = 0
       /\ callerMap = 0
       /\ hist = h
       /\ prior = AbsentH
       /\ last = Call("init", "p", "-", TRUE, NoDefault)
       /\ ret = RetNone
       /\ InitNc

Init == InitStore /\ eq = EqIdle /\ nm = NmIdle

\* i.set_property(n, v, copy): v is a new object of content c, or (reuse) the
\* object the caller passed last time; the caller keeps its reference to v
\* after the call (keep) or drops it
SetProperty(i, n, c, reuse, copy, keep) ==
    /\ inst[i].live
    /\ Room(2, 0)
    /\ reuse => callerVal # 0 /\ valHeap[callerVal] = c
    /\ \E v \in {IF reuse THEN [vh |-> valHeap, addr |-> callerVal]
                 ELSE NewVal(valHeap, c)} :
       \E r \in {set_property(v.vh, dictHeap, inst[i], n, v.addr, copy)} :
          Commit(r.vh, r.dh, [inst EXCEPT ![i] = r.self],
                 IF keep THEN v.addr ELSE 0, callerMap, hist,
                 [hist EXCEPT ![i][n] = IF copy THEN CopyH(c) ELSE RefH(v.addr)],
                 Call("set_property", i, n, copy, NoDefault), r.ret)

\* i.del_property(n)
DelProperty(i, n) ==
    /\ inst[i].live
    /\ \E r \in {del_property(valHeap, dictHeap, inst[i], n)} :
          Commit(r.vh, r.dh, [inst EXCEPT ![i] = r.self], callerVal, callerMap,
                 hist, [hist EXCEPT ![i][n] = AbsentH],
                 Call("del_property", i, n, TRUE, NoDefault), r.ret)

\* i.get_property(n, *default)
GetProperty(i, n, default) ==
    /\ inst[i].live
    /\ Commit(valHeap, dictHeap, inst, callerVal, callerMap, hist, hist,
              Call("get_property", i, n, TRUE, default),
              get_property(valHeap, dictHeap, inst[i], n, default))

\* i.has_property(n)
HasProperty(i, n) ==
    /\ inst[i].live
    /\ Commit(valHeap, dictHeap, inst, callerVal, callerMap, hist, hist,
              Call("has_property", i, n, TRUE, NoDefault),
              RetBool(has_property(dictHeap, inst[i], n)))

\* The mappings a caller passes
Mappings == UNION {[S -> Contents] : S \in SUBSET StoreNames}

NameIndex(n) == CHOOSE k \in 1..Len(AllNamesSeq) : AllNamesSeq[k] = n

\* The caller makes a dict of new objects with the contents m
BuildMapWith(vh, dh, m, items) ==
    [vh |-> [a \in ValAddr |->
                IF \E n \in DOMAIN m : items[n] = a
                THEN m[CHOOSE n \in DOMAIN m : items[n] = a]
                ELSE vh[a]],
     dh |-> NewDict(dh, items).dh,
     addr |-> NewDict(dh, items).addr]
BuildItems(m, free, ks) ==
    [n \in DOMAIN m |-> Nth(free, Rank(NameIndex(n), ks))]
BuildMap(vh, dh, m) ==
    BuildMapWith(vh, dh, m,
                 BuildItems(m, FreeVals(vh), {NameIndex(n) : n \in DOMAIN m}))

\* i.properties()
PropertiesGet(i) ==
    /\ inst[i].live
    /\ Room(0, 1)
    /\ \E r \in {properties(valHeap, dictHeap, inst[i], 0, TRUE)} :
          Commit(r.vh, r.dh, [inst EXCEPT ![i] = r.self], callerVal, callerMap,
                 hist, hist, Call("properties", i, "-", TRUE, NoDefault),
                 RetMap(View(r.vh, r.dh, r.out)))

\* i.properties(mapping, copy): mapping is a new dict of contents m, or
\* (reuse) the dict the caller passed last time, as it is now; the caller
\* keeps its reference to the mapping after the call (keep) or drops it
PropertiesReplace(i, m, reuse, copy, keep) ==
    /\ inst[i].live
    /\ Room(2 * Cardinality(DOMAIN m), 3)
    /\ reuse => callerMap # 0 /\ View(valHeap, dictHeap, callerMap) = m
    /\ \E b \in {IF reuse THEN [vh |-> valHeap, dh |-> dictHeap, addr |-> callerMap]
                 ELSE BuildMap(valHeap, dictHeap, m)} :
       \E r \in {properties(b.vh, b.dh, inst[i], b.addr, copy)} :
          Commit(r.vh, r.dh, [inst EXCEPT ![i] = r.self], callerVal,
                 IF keep THEN b.addr ELSE 0, hist,
                 [hist EXCEPT ![i] = InstalledH(b.vh, b.dh[b.addr].items, copy)],
                 CallM("properties_replace", i, "-", copy, NoDefault, m),
                 RetMap(View(r.vh, r.dh, r.out)))

\* The caller changes, in place, the object it passed to set_property
MutateCallerValue(c) ==
    /\ callerVal # 0
    /\ valHeap[callerVal] # c
    /\ Commit([valHeap EXCEPT ![callerVal] = c], dictHeap, inst, callerVal,
              callerMap, hist, hist,
              Call("mutate_value", "-", "-", TRUE, NoDefault), RetNone)

\* The caller sets a key of the dict it passed to properties()
MutateCallerMapSet(n, c) ==
    /\ callerMap # 0
    /\ Room(1, 0)
    /\ \E v \in {NewVal(valHeap, c)} :
          Commit(v.vh, [dictHeap EXCEPT ![callerMap].items = Put(@, n, v.addr)],
                 inst, callerVal, callerMap, hist, hist,
                 Call("mutate_map_set", "-", "-", TRUE, NoDefault), RetNone)

\* The caller deletes a key of the dict it passed to properties()
MutateCallerMapDel(n) ==
    /\ callerMap # 0
    /\ n \in DOMAIN dictHeap[callerMap].items
    /\ Commit(valHeap, [dictHeap EXCEPT ![callerMap].items = Pop(@, n)],
              inst, callerVal, callerMap, hist, hist,
              Call("mutate_map_del", "-", "-", TRUE, NoDefault), RetNone)

\* The caller changes, in place, a value of the dict it passed to properties()
MutateCallerMapValue(n, c) ==
    /\ callerMap # 0
    /\ n \in DOMAIN dictHeap[callerMap].items
    /\ valHeap[dictHeap[callerMap].items[n]] # c
    /\ Commit([valHeap EXCEPT ![dictHeap[callerMap].items[n]] = c], dictHeap,
              inst, callerVal, callerMap, hist, hist,
              Call("mutate_map_value", "-", "-", TRUE, NoDefault), RetNone)

\* A caller that works on one container and keeps no reference to what it
\* passed
StoreNext ==
    \/ \E n \in StoreNames, c \in Contents, copy \in BOOLEAN :
          SetProperty("p", n, c, FALSE, copy, FALSE)
    \/ \E n \in StoreNames : DelProperty("p", n)
    \/ \E n \in StoreNames, d \in Defaults : GetProperty("p", n, d)
    \/ \E n \in StoreNames : HasProperty("p", n)
    \/ PropertiesGet("p")
    \/ \E m \in Mappings, copy \in BOOLEAN :
          PropertiesReplace("p", m, FALSE, copy, FALSE)

Spec == Init /\ [][StoreNext]_vars

\* A caller that keeps what it passed and changes it afterwards
AliasNext ==
    \/ \E n \in StoreNames, c \in Contents, reuse, copy \in BOOLEAN :
          SetProperty("p", n, c, reuse, copy, TRUE)
    \/ \E m \in Mappings, reuse, copy \in BOOLEAN :
          PropertiesReplace("p", m, reuse, copy, TRUE)
    \/ \E n \in StoreNames : GetProperty("p", n, NoDefault)
    \/ PropertiesGet("p")
    \/ \E c \in Contents : MutateCallerValue(c)
    \/ \E n \in StoreNames, c \in Contents : MutateCallerMapSet(n, c)
    \/ \E n \in StoreNames : MutateCallerMapDel(n)
    \/ \E n \in StoreNames, c \in Contents : MutateCallerMapValue(n, c)

SpecAlias == Init /\ [][AliasNext]_vars

\* ------------------------------------------------------------------------
\* structure.abstract.PropertiesDataBounds
\* ------------------------------------------------------------------------
Classes == {"Properties", "PropertiesDataBounds"}

\* The accessors an instance of a class provides
ClassCaps(cls) ==
    IF cls = "PropertiesDataBounds" THEN Accessors
    ELSE IF cls = "Properties" THEN {"properties"} ELSE {}

\* What the model's bounds and ancillary objects hold; "-meta" is an object
\* copied without its data
BoundsContents == {"B1"}
AncNames == {"anc"}
AncContents == {"A1"}
CellTypes == {"point"}
NoData(c) ==
    IF c = "B1" THEN "B1-meta" ELSE IF c = "A1" THEN "A1-meta"
    ELSE IF c = "B3" THEN "B3-meta" ELSE c

\* bounds.copy(data=data), value.copy(data=data): a new object
Bounds_copy(vh, a, data) == NewVal(vh, IF data THEN vh[a] ELSE NoData(vh[a]))

\* for key, value in ancillaries.items():
\*     ancillaries[key] = value.copy(data=_use_data)
copy_items_with(vh, items, data, new) ==
    [vh |-> [a \in ValAddr |->
                IF \E n \in DOMAIN items : new[n] = a
                THEN LET c == vh[items[CHOOSE n \in DOMAIN items : new[n] = a]]
                     IN IF data THEN c ELSE NoData(c)
                ELSE vh[a]],
     items |-> new]
copy_items(vh, items, data) ==
    copy_items_with(vh, items, data,
        BuildItems(items, FreeVals(vh), {NameIndex(n) : n \in DOMAIN items}))

\* (a variant that installs bounds of another shape)
set_bounds_other(vh, self, bounds, copy) ==
    [ret |-> RetNone, vh |-> NewVal(vh, "B3").vh,
     self |-> [self EXCEPT !.bounds = NewVal(vh, "B3").addr]]

\* set_bounds(bounds, copy=True)
set_bounds(vh, self, bounds, copy) ==
    LET cp == IF copy THEN Bounds_copy(vh, bounds, TRUE)
              ELSE [vh |-> vh, addr |-> bounds]
    IN [ret |-> RetNone, vh |-> cp.vh, self |-> [self EXCEPT !.bounds = cp.addr]]

\* set_cell_type(value)
set_cell_type(self, value) ==
    [ret |-> RetNone, self |-> [self EXCEPT !.cell_type = value]]

\* del_bounds(): the class body defines del_bounds twice and the second
\* definition is the one the class keeps; it deletes the 'cell_type' component
del_bounds(self) ==
    [ret |-> IF self.cell_type = "None" THEN RetNone ELSE RetImm(self.cell_type),
     self |-> [self EXCEPT !.cell_type = "None"]]

\* has_bounds(): self._has_component('bounds')
has_bounds(self) == self.bounds # 0

\* (a variant that returns the default whenever one is given)
get_bounds_default(vh, self, default) ==
    IF default # NoDefault THEN RetImm(default[1])
    ELSE IF self.bounds # 0 THEN RetObj(vh, self.bounds)
    ELSE RetRaise("AttributeError")

\* get_bounds(*default): self._get_component('bounds', None, *default), which
\* returns the component, the default when the component is not set, and
\* fails when there is neither
get_bounds(vh, self, default) ==
    IF self.bounds # 0 THEN RetObj(vh, self.bounds)
    ELSE IF default # NoDefault THEN RetImm(default[1])
    ELSE RetRaise("AttributeError")

\* (a variant that lets a source without get_bounds keep the bounds passed)
source_bounds_keep(source, bounds) ==
    IF source.given /\ "get_bounds" \in source.caps
    THEN [exc |-> "none", val |-> source.obj.bounds]
    ELSE [exc |-> "none", val |-> bounds]

\* try: bounds = source.get_bounds(None)
\* except AttributeError: bounds = None
source_bounds(source, bounds) ==
    IF ~source.given THEN [exc |-> "none", val |-> bounds]
    ELSE IF "get_bounds" \in source.caps
         THEN [exc |-> "none", val |-> source.obj.bounds]
         ELSE [exc |-> "none", val |-> 0]

\* try: cell_type = source.get_cell_type(None)
\* except AttributeError: cell_type = None
source_cell_type(source, cell_type) ==
    IF ~source.given THEN [exc |-> "none", val |-> cell_type]
    ELSE IF "get_cell_type" \in source.caps
         THEN [exc |-> "none", val |-> source.obj.cell_type]
         ELSE [exc |-> "none", val |-> "None"]

\* try: ancillaries = source.get_ancillaries()
\* except AttributeError: ancillaries = None
source_ancillaries(source, ancillaries) ==
    IF ~source.given THEN [exc |-> "none", val |-> ancillaries]
    ELSE IF "get_ancillaries" \in source.caps
         THEN [exc |-> "none", val |-> source.obj.anc]
         ELSE [exc |-> "none", val |-> 0]

\* self.ancillaries(ancillaries, copy=False): the instance holds a dict of
\* its own with the values given
ancillaries_set(r, cp, nd) ==
    [exc |-> "none", out |-> 0, vh |-> cp.vh, dh |-> nd.dh,
     self |-> [r.self EXCEPT !.anc = nd.addr]]
ancillaries(r, cp) == ancillaries_set(r, cp, NewDict(r.dh, cp.items))

\* The part of __init__ that initialises the ancillaries
PDB__init__ancillaries(r, an, copy, use_data) ==
    IF an.val = 0
    THEN ancillaries(r, [vh |-> r.vh, items |-> EmptyMap])
    ELSE IF copy \/ ~use_data
         THEN ancillaries(r, copy_items(r.vh, r.dh[an.val].items, use_data))
         ELSE ancillaries(r, [vh |-> r.vh, items |-> r.dh[an.val].items])

\* The part of __init__ that initialises the cell type
PDB__init__cell_type(r, ct) ==
    IF ct.val = "None" THEN r
    ELSE [r EXCEPT !.self = set_cell_type(r.self, ct.val).self]

\* The part of __init__ that initialises the bounds
PDB__init__set_bounds(r, sb) == [r EXCEPT !.vh = sb.vh, !.self = sb.self]
PDB__init__copy_bounds(r, cp) ==
    PDB__init__set_bounds(r, set_bounds(cp.vh, r.self, cp.addr, FALSE))
PDB__init__bounds(r, b, copy, use_data) ==
    IF b.val = 0 THEN r
    ELSE IF copy \/ ~use_data
         THEN PDB__init__copy_bounds(r, Bounds_copy(r.vh, b.val, use_data))
         ELSE PDB__init__copy_bounds(r, [vh |-> r.vh, addr |-> b.val])

\* The exception __init__ lets out of the look at the source
PDB__init__exc(r, b, ct, an) ==
    IF r.exc # "none" THEN r.exc
    ELSE IF b.exc # "none" THEN b.exc
    ELSE IF ct.exc # "none" THEN ct.exc
    ELSE an.exc

PDB__init__rest(r, b, ct, an, copy, use_data) ==
    IF PDB__init__exc(r, b, ct, an) # "none"
    THEN [r EXCEPT !.exc = PDB__init__exc(r, b, ct, an)]
    ELSE PDB__init__ancillaries(
             PDB__init__cell_type(PDB__init__bounds(r, b, copy, use_data), ct),
             an, copy, use_data)

\* PropertiesData.__init__(properties, data, source, copy, _use_data): the
\* properties are initialised by Properties.__init__; the data are those of
\* the source when _use_data is set, and the model keeps of them the name
\* that tells their shape
PropertiesData__init__data(r, source, use_data) ==
    [r EXCEPT !.self.data = IF source.given /\ use_data THEN source.obj.data
                            ELSE "None"]
PropertiesData__init__(vh, dh, cls, props, source, copy, use_data) ==
    PropertiesData__init__data(Properties__init__(vh, dh, cls, props, source, copy),
                               source, use_data)

\* PropertiesDataBounds.__init__(properties, data, bounds, cell_type,
\* ancillaries, source, copy, _use_data)
PDB__init__(vh, dh, cls, props, bounds, cell_type, anc, source, copy, use_data) ==
    PDB__init__rest(PropertiesData__init__(vh, dh, cls, props, source, copy, use_data),
                    source_bounds(source, bounds),
                    source_cell_type(source, cell_type),
                    source_ancillaries(source, anc),
                    copy, use_data)

\* PropertiesData.copy(data): type(self)(source=self, copy=True, _use_data=data)
PropertiesData_copy(vh, dh, self, data) ==
    PDB__init__(vh, dh, self.cls, 0, 0, "None", 0,
                Source(self, ClassCaps(self.cls)), TRUE, data)

\* PropertiesDataBounds.copy(data): super().copy(data=data)
PDB_copy(vh, dh, self, data) == PropertiesData_copy(vh, dh, self, data)

\* cls(...), for the classes of the model
construct(vh, dh, cls, props, bounds, cell_type, anc, source, copy, use_data) ==
    IF cls = "PropertiesDataBounds"
    THEN PDB__init__(vh, dh, cls, props, bounds, cell_type, anc, source,
                     copy, use_data)
    ELSE Properties__init__(vh, dh, cls, props, source, copy)

\* self.copy(), by the class of self
copy_of(vh, dh, self, data) ==
    IF self.cls = "PropertiesDataBounds" THEN PDB_copy(vh, dh, self, data)
    ELSE Properties_copy(vh, dh, self)

\* The arguments a caller makes for a constructor: a dict of properties m, a
\* bounds object b, a dict of ancillaries an ("None": not passed)
ArgsAnc(a2, a1, an) ==
    IF an = "None" THEN [vh |-> a2.vh, dh |-> a1.dh, props |-> a1.addr,
                         bounds |-> a2.addr, anc |-> 0]
    ELSE LET a3 == BuildMap(a2.vh, a1.dh, [x \in AncNames |-> an])
         IN [vh |-> a3.vh, dh |-> a3.dh, props |-> a1.addr,
             bounds |-> a2.addr, anc |-> a3.addr]
ArgsBounds(a1, b, an) ==
    ArgsAnc(IF b = "None" THEN [vh |-> a1.vh, addr |-> 0] ELSE NewVal(a1.vh, b),
            a1, an)
Args(vh, dh, m, b, an) == ArgsBounds(BuildMap(vh, dh, m), b, an)

\* What a construction leaves: the new instance in i, or the exception
Built(i, r, made, copy, l) ==
    IF r.exc = "none"
    THEN Commit(r.vh, r.dh,
                [inst EXCEPT ![i] = [r.self EXCEPT !.made = made]],
                callerVal, callerMap, hist,
                [hist EXCEPT ![i] = InstalledH(r.vh, r.dh[r.self.props].items, copy)],
                l, RetNone)
    ELSE Commit(valHeap, dictHeap, inst, callerVal, callerMap, hist, hist,
                l, RetRaise(r.exc))

PropMaps == {EmptyMap} \cup [{"foo"} -> {"bar"}]
BoundsArgs == {"None"} \cup BoundsContents
CellArgs == {"None"} \cup CellTypes
AncArgs == {"None"} \cup AncContents

\* i = cls(properties=m, bounds=b, cell_type=ct, ancillaries=an, copy=copy)
Construct(i, cls, m, b, ct, an, copy) ==
    /\ cls = "Properties" => b = "None" /\ ct = "None" /\ an = "None"
    /\ Room(6, 7)
    /\ \E a \in {Args(valHeap, dictHeap, m, b, an)} :
       \E r \in {construct(a.vh, a.dh, cls, a.props, a.bounds, ct, a.anc,
                           NoSource, copy, TRUE)} :
          Built(i, r, "init", copy, CallM("construct", i, "-", copy, NoDefault, m))

\* An object of another kind that a caller passes as source: it holds the
\* constituents a and provides the accessors caps
Foreign(a, cell_type, caps) ==
    Source([NoInst EXCEPT !.live = TRUE, !.cls = "foreign", !.props = a.props,
                          !.bounds = a.bounds, !.cell_type = cell_type,
                          !.anc = a.anc], caps)

\* i = PropertiesDataBounds(source=s, copy=copy, _use_data=use_data), where s
\* provides the accessors caps and holds every constituent (full) or none;
\* with explicit the caller passes a value for every constituent as well
ConstructFrom(i, caps, full, explicit, copy, use_data) ==
    /\ Room(9, 9)
    /\ \E a \in {IF full
                 THEN Args(valHeap, dictHeap, [x \in {"foo"} |-> "bar"], "B1", "A1")
                 ELSE Args(valHeap, dictHeap, EmptyMap, "None", "None")} :
       \E e \in {IF explicit
                 THEN Args(a.vh, a.dh, [x \in {"foo"} |-> "bar"], "B1", "A1")
                 ELSE Args(a.vh, a.dh, EmptyMap, "None", "None")} :
       \E r \in {construct(e.vh, e.dh, "PropertiesDataBounds", e.props, e.bounds,
                           IF explicit THEN "point" ELSE "None", e.anc,
                           Foreign(a, IF full THEN "point" ELSE "None", caps),
                           copy, use_data)} :
          Built(i, r, "source", copy,
                CallS("construct_from", i,
                      IF explicit THEN "explicit" ELSE "-", copy, caps))

\* Other(i) = i.copy(), i.copy(data=data)
Copy(i, data) ==
    /\ inst[i].live
    /\ inst[i].cls = "Properties" => data
    /\ Room(6, 7)
    /\ \E r \in {copy_of(valHeap, dictHeap, inst[i], data)} :
          Built(Other(i), r, "copy", TRUE, CallS("copy", i, "-", data, {}))

\* i.set_bounds(b, copy), b a new object of content c
SetBounds(i, c, copy) ==
    /\ inst[i].live /\ inst[i].cls = "PropertiesDataBounds"
    /\ Room(2, 0)
    /\ \E v \in {NewVal(valHeap, c)} :
       \E r \in {set_bounds(v.vh, inst[i], v.addr, copy)} :
          Commit(r.vh, dictHeap, [inst EXCEPT ![i] = r.self], callerVal,
                 callerMap, hist, hist,
                 Call("set_bounds", i, "-", copy, NoDefault), r.ret)

\* i.del_bounds()
DelBounds(i) ==
    /\ inst[i].live /\ inst[i].cls = "PropertiesDataBounds"
    /\ \E r \in {del_bounds(inst[i])} :
          Commit(valHeap, dictHeap, [inst EXCEPT ![i] = r.self], callerVal,
                 callerMap, hist, hist,
                 Call("del_bounds", i, "-", TRUE, NoDefault), r.ret)

\* i.set_cell_type(ct)
SetCellType(i, ct) ==
    /\ inst[i].live /\ inst[i].cls = "PropertiesDataBounds"
    /\ \E r \in {set_cell_type(inst[i], ct)} :
          Commit(valHeap, dictHeap, [inst EXCEPT ![i] = r.self], callerVal,
                 callerMap, hist, hist,
                 Call("set_cell_type", i, "-", TRUE, NoDefault), r.ret)

\* An instance, its copy, and the set and delete calls on the two
CompositeNext ==
    \/ \E cls \in Classes, m \in PropMaps, b \in BoundsArgs, ct \in CellArgs,
          an \in AncArgs :
          Construct("p", cls, m, b, ct, an, TRUE)
    \/ \E data \in BOOLEAN : Copy("p", data)
    \/ \E i \in Inst : SetProperty(i, "foo", "bar", FALSE, TRUE, FALSE)
    \/ \E i \in Inst : DelProperty(i, "foo")
    \/ \E i \in Inst, c \in BoundsContents, copy \in BOOLEAN : SetBounds(i, c, copy)
    \/ \E i \in Inst : DelBounds(i)
    \/ \E i \in Inst, ct \in CellTypes : SetCellType(i, ct)

SpecComposite == Init /\ [][CompositeNext]_vars

\* Constructions from sources of other kinds
SourceNext ==
    \E caps \in SUBSET Accessors, full, explicit, copy, use_data \in BOOLEAN :
       ConstructFrom("q", caps, full, explicit, copy, use_data)

SpecSource == Init /\ [][SourceNext]_vars

\* The bounds and the data a caller passes, by the names that tell their
\* shapes: the bounds have the shape of the data and one more dimension for
\* the vertices, or another shape
ShapedBounds == {"B1", "B3"}
ShapedData == {"D2"}
ShapeOf(c) ==
    CASE c = "D2" -> <<2>>
      [] c = "B1" -> <<2, 2>>
      [] c = "B3" -> <<3, 2>>
      [] OTHER -> <<>>

\* i = PropertiesDataBounds(data=d, bounds=b, copy=copy)
ConstructData(i, b, d, copy) ==
    /\ Room(6, 7)
    /\ \E a \in {Args(valHeap, dictHeap, EmptyMap, b, "None")} :
       \E r \in {construct(a.vh, a.dh, "PropertiesDataBounds", a.props, a.bounds,
                           "None", a.anc, NoSource, copy, TRUE)} :
          Built(i, [r EXCEPT !.self.data = d], "init", copy,
                CallM("construct", i, b, copy, NoDefault, EmptyMap))

\* i.set_bounds(b, copy), b a new object of content c that the caller keeps
SetBoundsOf(i, c, copy) ==
    /\ inst[i].live /\ inst[i].cls = "PropertiesDataBounds"
    /\ Room(2, 0)
    /\ \E v \in {NewVal(valHeap, c)} :
       \E r \in {set_bounds(v.vh, inst[i], v.addr, copy)} :
          Commit(r.vh, dictHeap, [inst EXCEPT ![i] = r.self], v.addr,
                 callerMap, hist, hist,
                 Call("set_bounds", i, c, copy, NoDefault), r.ret)

\* i.get_bounds(*default)
GetBounds(i, default) ==
    /\ inst[i].live /\ inst[i].cls = "PropertiesDataBounds"
    /\ Commit(valHeap, dictHeap, inst, callerVal, callerMap, hist, hist,
              Call("get_bounds", i, "-", TRUE, default),
              get_bounds(valHeap, inst[i], default))

\* i.has_bounds()
HasBounds(i) ==
    /\ inst[i].live /\ inst[i].cls = "PropertiesDataBounds"
    /\ Commit(valHeap, dictHeap, inst, callerVal, callerMap, hist, hist,
              Call("has_bounds", i, "-", TRUE, NoDefault),
              RetBool(has_bounds(inst[i])))

\* A composite with data, its copy, and the calls on its bounds
BoundsNext ==
    \/ \E b \in {"None"} \cup ShapedBounds, d \in {"None"} \cup ShapedData,
          copy \in BOOLEAN :
          ConstructData("p", b, d, copy)
    \/ \E data \in BOOLEAN : Copy("p", data)
    \/ \E c \in ShapedBounds, copy \in BOOLEAN : SetBoundsOf("p", c, copy)
    \/ DelBounds("p")
    \/ \E default \in {NoDefault, <<"d">>} : GetBounds("p", default)
    \/ HasBounds("p")

SpecBounds == Init /\ [][BoundsNext]_vars

\* ------------------------------------------------------------------------
\* mixin.Properties.equals
\* ------------------------------------------------------------------------
\* A property value: a number of a data type, or a string
Num(dtype, v) == [t |-> "num", dtype |-> dtype, v |-> v, s |-> ""]
Str(x) == [t |-> "str", dtype |-> "str", v |-> 0, s |-> x]

EqNames == {"foo", "_FillValue", "missing_value"}
EqNamesSeq == <<"_FillValue", "foo", "missing_value">>
FooValues == {Num("int", 9), Num("int", 10), Num("float", 10), Str("a")}
FillValues == {Num("int", 9), Num("int", 10)}

\* The property mappings of the containers compared
EqMaps ==
    {m \in UNION {[S -> FooValues \cup FillValues] : S \in SUBSET EqNames} :
        \A n \in DOMAIN m : IF n = "foo" THEN m[n] \in FooValues
                            ELSE m[n] \in FillValues}

\* The object passed as other: self itself ("self"), self.copy() ("copy"),
\* another instance of self's class ("Properties"), a container of another
\* class that provides properties() ("Foreign"), a string ("str")
OtherKinds == {"self", "copy", "Properties", "Foreign", "str"}
IsInstance(other) == other.kind \in {"self", "copy", "Properties"}
OtherCaps(other) == IF other.kind = "str" THEN {} ELSE {"properties"}

\* The tolerances: rtol is rn/rd
Tolerances ==
    {[rn |-> 0, rd |-> 1, atol |-> 0],
     [rn |-> 1, rd |-> 10, atol |-> 0],
     [rn |-> 0, rd |-> 1, atol |-> 1]}

\* The values of ignore_properties, each passed as a tuple or as a list
IgnoreLists == {<<>>, <<"foo">>, <<"_FillValue">>, <<"missing_value", "foo">>}

Abs(x) == IF x < 0 THEN -x ELSE x

\* Container._equals(x, y, rtol, atol, ignore_data_type): numbers are equal
\* when |x - y| <= atol + rtol * |y| and, unless ignore_data_type, their data
\* types are the same; other values are equal when they are the same
_equals(x, y, tol, ignore_data_type) ==
    IF x.t = "num" /\ y.t = "num"
    THEN /\ ignore_data_type \/ x.dtype = y.dtype
         /\ tol.rd * Abs(x.v - y.v) <= tol.rd * tol.atol + tol.rn * Abs(y.v)
    ELSE x = y

\* Container._equals_preprocess(other, ignore_type): True for self, False for
\* an object of another class unless ignore_type, which makes a container of
\* self's class from it, type(self)(source=other, copy=False)
_equals_preprocess(self, other, ignore_type) ==
    IF other.kind = "self" THEN [t |-> "bool", b |-> TRUE]
    ELSE IF ignore_type
         THEN IF IsInstance(other) THEN [t |-> "obj", obj |-> other]
              ELSE [t |-> "obj",
                    obj |-> [kind |-> "Properties",
                             props |-> IF "properties" \in OtherCaps(other)
                                       THEN other.props ELSE EmptyMap]]
         ELSE IF IsInstance(other) THEN [t |-> "obj", obj |-> other]
              ELSE [t |-> "bool", b |-> FALSE]

\* (a variant that leaves '_FillValue' and 'missing_value' out)
ignore_names_only(ignore_properties, ignore_fill_value) == ignore_properties

\* if ignore_fill_value: ignore_properties += ('_FillValue', 'missing_value')
ignore_names(ignore_properties, ignore_fill_value) ==
    IF ignore_fill_value
    THEN ignore_properties \o <<"_FillValue", "missing_value">>
    ELSE ignore_properties

\* for prop in ignore_properties: properties.pop(prop, None)
pop_ignored(props, ignore_properties) ==
    LET F[k \in 0..Len(ignore_properties)] ==
            IF k = 0 THEN props ELSE Pop(F[k-1], ignore_properties[k])
    IN F[Len(ignore_properties)]

\* (a variant that passes the caller's ignore_data_type on)
equals_value_strict(x, y, tol, ignore_data_type) ==
    _equals(x, y, tol, ignore_data_type)

\* self._equals(x, y, rtol=rtol, atol=atol, ignore_data_type=True, ...)
equals_value(x, y, tol, ignore_data_type) == _equals(x, y, tol, TRUE)

\* for prop, x in self_properties.items(): ... return False ... ; return True
equals_values(self_properties, other_properties, tol, ignore_data_type) ==
    LET F[k \in 0..Len(EqNamesSeq)] ==
            IF k = 0 THEN TRUE
            ELSE IF ~F[k-1] THEN FALSE
            ELSE IF EqNamesSeq[k] \notin DOMAIN self_properties THEN TRUE
            ELSE equals_value(self_properties[EqNamesSeq[k]],
                              other_properties[EqNamesSeq[k]],
                              tol, ignore_data_type)
    IN F[Len(EqNamesSeq)]

\* (a variant that only looks at the names the two have in common)
equals_properties_common(self_properties, other_properties, tol, ignore_data_type) ==
    \A n \in DOMAIN self_properties \cap DOMAIN other_properties :
       equals_value(self_properties[n], other_properties[n], tol, ignore_data_type)

\* (a variant that only asks for the names of self to be names of other)
equals_properties_subset(self_properties, other_properties, tol, ignore_data_type) ==
    IF ~(DOMAIN self_properties \subseteq DOMAIN other_properties) THEN FALSE
    ELSE equals_values(self_properties, other_properties, tol, ignore_data_type)

\* if set(self_properties) != set(other_properties): return False
\* and then the loop over the values
equals_properties(self_properties, other_properties, tol, ignore_data_type) ==
    IF DOMAIN self_properties # DOMAIN other_properties THEN FALSE
    ELSE equals_values(self_properties, other_properties, tol, ignore_data_type)

\* other.properties(), for the object the preprocessing has handed over
other_properties_of(obj) ==
    IF obj.kind = "str" THEN [exc |-> "AttributeError", props |-> EmptyMap]
    ELSE [exc |-> "none", props |-> obj.props]

equals_checked(self, op, tol, ignore_data_type, names) ==
    IF op.exc # "none" THEN RetRaise(op.exc)
    ELSE RetBool(equals_properties(pop_ignored(self.props, names),
                                   pop_ignored(op.props, names),
                                   tol, ignore_data_type))

\* (a variant that goes on when the preprocessing has said False)
equals_on(self, other, tol, ignore_data_type, ignore_fill_value, ignore_properties, ignore_type, pp) ==
    IF pp.t = "bool" /\ pp.b THEN RetBool(TRUE)
    ELSE equals_checked(self, other_properties_of(IF pp.t = "bool" THEN other ELSE pp.obj),
                        tol, ignore_data_type,
                        ignore_names(ignore_properties, ignore_fill_value))

\* if pp in (True, False): return pp; other = pp; ...
equals_pp(self, other, tol, ignore_data_type, ignore_fill_value, ignore_properties, ignore_type, pp) ==
    IF pp.t = "bool" THEN RetBool(pp.b)
    ELSE equals_checked(self, other_properties_of(pp.obj), tol, ignore_data_type,
                        ignore_names(ignore_properties, ignore_fill_value))

\* equals(other, rtol, atol, verbose, ignore_data_type, ignore_fill_value,
\* ignore_properties, ignore_type)
equals(self, other, tol, ignore_data_type, ignore_fill_value, ignore_properties, ignore_type) ==
    equals_pp(self, other, tol, ignore_data_type, ignore_fill_value,
              ignore_properties, ignore_type,
              _equals_preprocess(self, other, ignore_type))

\* The objects a call of equals can write to: the property dicts of self and
\* of other (p, q), the dicts that self.properties() and other.properties()
\* return (sp, op) and the caller's ignore_properties (L)
equals_store(self, other, ignore_properties) ==
    [p |-> self.props, q |-> other.props, sp |-> EmptyMap, op |-> EmptyMap,
     L |-> ignore_properties]

\* ignore_properties += ('_FillValue', 'missing_value'): a list is extended
\* in place, a tuple is left alone and the name is bound to a new tuple
equals_iadd(store, ignore_fill_value, is_list) ==
    IF ignore_fill_value /\ is_list
    THEN [store EXCEPT !.L = @ \o <<"_FillValue", "missing_value">>]
    ELSE store

\* self_properties = self.properties(); other_properties = other.properties():
\* each is a new dict, a copy of the component
equals_copies(store, obj) == [store EXCEPT !.sp = store.p, !.op = obj.props]

\* The pops go to the two copies
equals_pops(store, names) ==
    [store EXCEPT !.sp = pop_ignored(@, names), !.op = pop_ignored(@, names)]

\* What a call of equals leaves in the objects it was given
equals_after(self, other, ignore_fill_value, ignore_properties, is_list, pp) ==
    IF pp.t = "bool" THEN equals_store(self, other, ignore_properties)
    ELSE equals_pops(
           equals_copies(
             equals_iadd(equals_store(self, other, ignore_properties),
                         ignore_fill_value, is_list),
             pp.obj),
           ignore_names(ignore_properties, ignore_fill_value))

\* The mappings an object of kind k can hold when self holds sp: what self
\* holds when it is self or a copy of it, nothing when it is a string
OtherMaps(k, sp) ==
    IF k \in {"self", "copy"} THEN {sp}
    ELSE IF k = "str" THEN {EmptyMap} ELSE EqMaps

\* A call self.equals(other, ...) that has not been made yet
EqCall(sp, k, op, tol, idt, ifv, L, lst, it) ==
    [made |-> FALSE,
     self |-> [kind |-> "Properties", props |-> sp],
     other |-> [kind |-> k, props |-> op],
     tol |-> tol, ignore_data_type |-> idt, ignore_fill_value |-> ifv,
     ignore_properties |-> L, ignore_is_list |-> lst, ignore_type |-> it,
     ret |-> RetNone,
     after |-> equals_store([props |-> sp], [props |-> op], L)]

InitEq ==
    /\ InitStore
    /\ nm = NmIdle
    /\ \E sp \in EqMaps, k \in OtherKinds, tol \in Tolerances,
          idt \in BOOLEAN, ifv \in BOOLEAN, L \in IgnoreLists, lst \in BOOLEAN,
          it \in BOOLEAN :
          \E op \in OtherMaps(k, sp) :
             eq = EqCall(sp, k, op, tol, idt, ifv, L, lst, it)

\* self.equals(other, ...)
Equals ==
    /\ eq # EqIdle /\ eq.made = FALSE
    /\ eq' = [eq EXCEPT !.made = TRUE,
                        !.ret = equals(eq.self, eq.other, eq.tol,
                                       eq.ignore_data_type, eq.ignore_fill_value,
                                       eq.ignore_properties, eq.ignore_type),
                        !.after = equals_after(
                                    eq.self, eq.other, eq.ignore_fill_value,
                                    eq.ignore_properties, eq.ignore_is_list,
                                    _equals_preprocess(eq.self, eq.other,
                                                       eq.ignore_type))]
    /\ UNCHANGED <<valHeap, dictHeap, inst, callerVal, callerMap, hist, prior,
                   last, ret, nm, ncVars>>

EqNext == Equals

SpecEq == InitEq /\ [][EqNext]_vars

\* ------------------------------------------------------------------------
\* mixin.Properties.names
\* ------------------------------------------------------------------------
\* The property names of the containers named, in ascending order
NmKeysSeq == <<"axis", "cf_role", "foo", "long_name", "standard_name">>
NmKeys == {NmKeysSeq[k] : k \in 1..Len(NmKeysSeq)}
NmValues == {"x", "y"}
NmMaps == UNION {[S -> NmValues] : S \in SUBSET NmKeys}

\* The place of a key in the order of the keys
KeyIndex(key) == CHOOSE k \in 1..Len(NmKeysSeq) : NmKeysSeq[k] = key

\* The strings names() makes: a value as it is, '{0}={1}'.format(prop, value)
\* and 'ncvar%{0}'.format(n)
Bare(value) == [form |-> "value", key |-> "", value |-> value]
KeyValue(prop, value) == [form |-> "key=value", key |-> prop, value |-> value]
NcVar(n) == [form |-> "ncvar%", key |-> "", value |-> n]

\* sorted(properties.items()): the keys in ascending order
sorted_keys(popped) ==
    [k \in 1..Cardinality(DOMAIN popped) |->
        CHOOSE key \in DOMAIN popped :
           Cardinality({x \in DOMAIN popped : KeyIndex(x) < KeyIndex(key)}) = k - 1]

\* out.insert(0, x)
insert0(out, x) == <<x>> \o out

\* ['{0}={1}'.format(prop, value) for prop, value in sorted(properties.items())]
names_tail(popped, keys) ==
    [k \in 1..Len(keys) |-> KeyValue(keys[k], popped[keys[k]])]

\* if extra: out = list(extra) + out  (extra.given is FALSE for None)
names_extra(out, extra) ==
    IF extra.given /\ extra.items # <<>> THEN extra.items \o out ELSE out

\* n = self.nc_get_variable(None); if n is not None: out.insert(0, 'ncvar%...')
names_ncvar(out, ncvar) ==
    IF ncvar # "None" THEN insert0(out, NcVar(ncvar)) ELSE out

\* n = self.get_property(prop, None); if n is not None: out.insert(0, ...)
names_property(out, props, prop) ==
    IF prop \in DOMAIN props
    THEN insert0(out, IF prop = "standard_name" THEN Bare(props[prop])
                      ELSE KeyValue(prop, props[prop]))
    ELSE out

\* (a variant that looks at long_name after cf_role)
names_long_first(props, ncvar, extra, popped) ==
    names_property(
      names_property(
        names_property(
          names_ncvar(
            names_extra(names_tail(popped, sorted_keys(popped)), extra),
            ncvar),
          props, "cf_role"),
        props, "long_name"),
      props, "standard_name")

\* The statements of names() after the two pops
names_popped(props, ncvar, extra, popped) ==
    names_property(
      names_property(
        names_property(
          names_ncvar(
            names_extra(names_tail(popped, sorted_keys(popped)), extra),
            ncvar),
          props, "long_name"),
        props, "cf_role"),
      props, "standard_name")

\* names(extra): props is what self.properties() returns, ncvar what
\* self.nc_get_variable(None) returns
names(props, ncvar, extra) ==
    names_popped(props, ncvar, extra, Pop(Pop(props, "cf_role"), "long_name"))

\* What a call of names leaves in the objects it was given: the two pops go
\* to the dict self.properties() returned, a copy of the component, and
\* list(extra) + out is a new list
names_after(props, extra) ==
    [p |-> props, properties |-> Pop(Pop(props, "cf_role"), "long_name"),
     extra |-> extra]

\* The values of extra: None, an empty list, a list of one string
NmExtras ==
    {[given |-> FALSE, items |-> <<>>], [given |-> TRUE, items |-> <<>>],
     [given |-> TRUE, items |-> <<Bare("e")>>]}

InitNames ==
    /\ InitStore
    /\ eq = EqIdle
    /\ \E props \in NmMaps, ncvar \in {"None", "tas"}, extra \in NmExtras :
          nm = [made |-> FALSE, props |-> props, ncvar |-> ncvar,
                extra |-> extra, out |-> <<>>,
                after |-> [p |-> props, properties |-> EmptyMap, extra |-> extra]]

\* self.names(extra)
Names ==
    /\ nm # NmIdle /\ nm.made = FALSE
    /\ nm' = [nm EXCEPT !.made = TRUE,
                        !.out = names(nm.props, nm.ncvar, nm.extra),
                        !.after = names_after(nm.props, nm.extra)]
    /\ UNCHANGED <<valHeap, dictHeap, inst, callerVal, callerMap, hist, prior,
                   last, ret, eq, ncVars>>

NamesNext == Names

SpecNames == InitNames /\ [][NamesNext]_vars

\* The calls that only read: one call of equals or one call of names
ReadNext == Equals \/ Names

SpecRead == (InitEq \/ InitNames) /\ [][ReadNext]_vars

\* ------------------------------------------------------------------------
\* data.NetCDFArray
\* ------------------------------------------------------------------------
\* An element of an array that came from the file: its data and its mask
El(v) == [m |-> FALSE, v |-> v]
Masked(v) == [m |-> TRUE, v |-> v]

\* An array: data runs over the first dimension; the items of a character
\* array (kinds "S" and "U" of two dimensions) are its rows of characters
Arr(kind, shape, data) == [kind |-> kind, shape |-> shape, data |-> data]

\* The variables of the dataset the storage collaborator serves
Var(varid, kind, shape, fill, data) ==
    [varid |-> varid, kind |-> kind, shape |-> shape, fill |-> fill, data |-> data]

RootVariables ==
    [n \in {"tas", "name"} |->
        IF n = "tas" THEN Var(0, "f", <<2>>, Some(99), <<1, 99>>)
        ELSE Var(1, "S", <<3, 3>>, None,
                 << <<"a", "b", " ">>, <<" ", " ", " ">>, <<" ", "a", " ">> >>)]

ForecastVariables ==
    [n \in {"tas", "name", "title"} |->
        IF n = "tas" THEN Var(0, "f", <<2>>, Some(99), <<99, 3>>)
        ELSE IF n = "name" THEN Var(1, "O", <<2>>, None, <<"ab ", "">>)
        ELSE Var(2, "str", <<>>, None, <<"">>)]

\* The groups of the dataset by their paths, each with the names of its
\* groups and its variables
Groups ==
    [p \in {<<>>, <<"forecast">>} |->
        IF p = <<>> THEN [groups |-> {"forecast"}, variables |-> RootVariables]
        ELSE [groups |-> {}, variables |-> ForecastVariables]]

\* The files: one opens, one makes netCDF4.Dataset raise RuntimeError, one
\* makes it raise OSError
Filenames == {"file.nc", "locked.nc", "missing.nc"}
DatasetOutcome(filename) ==
    CASE filename = "file.nc" -> "opened"
      [] filename = "locked.nc" -> "RuntimeError"
      [] OTHER -> "OSError"

\* NetCDFArray.__init__ (lines 152-171) when source is None, and with what
\* lines 116-150 took from a source
NetCDFArray__init__set(filename, ncvar, varid, group, dtype, shape, mask) ==
    [made |-> TRUE, shape |-> shape, filename |-> filename, ncvar |-> ncvar,
     varid |-> varid, group |-> group, dtype |-> dtype, mask |-> mask,
     close |-> TRUE]

\* source._get_component(name, default): AttributeError when the source is
\* not a container, the default when the component is not set
source_component(source, name, default) ==
    IF ~source.container THEN default ELSE source.components[name]

NetCDFArray__init__(filename, ncvar, varid, group, dtype, shape, mask, source) ==
    IF source.none
    THEN NetCDFArray__init__set(filename, ncvar, varid, group, dtype, shape, mask)
    ELSE NetCDFArray__init__set(source_component(source, "filename", "None"),
                                source_component(source, "ncvar", "None"),
                                source_component(source, "varid", None),
                                source_component(source, "group", None),
                                source_component(source, "dtype", "None"),
                                source_component(source, "shape", None),
                                source_component(source, "mask", TRUE))

\* (a variant that raises the RuntimeError again without the file name)
open_bare(self, fs) ==
    IF DatasetOutcome(self.filename) = "opened"
    THEN [ok |-> TRUE, files |-> [fs EXCEPT !.opens = @ + 1],
          ret |-> Returned("dataset", <<>>)]
    ELSE [ok |-> FALSE, files |-> fs,
          ret |-> Raise(DatasetOutcome(self.filename), "open",
                        DatasetOutcome(self.filename),
                        IF DatasetOutcome(self.filename) = "RuntimeError"
                        THEN "None" ELSE self.filename)]

\* NetCDFArray.open: netCDF4.Dataset(self.get_filename(), "r"); a
\* RuntimeError is raised again as a RuntimeError of the first one's message
\* and the file name; any other error goes on as it is (the OSError of
\* netCDF4.Dataset names the file itself)
open(self, fs) ==
    CASE DatasetOutcome(self.filename) = "opened" ->
            [ok |-> TRUE, files |-> [fs EXCEPT !.opens = @ + 1],
             ret |-> Returned("dataset", <<>>)]
      [] DatasetOutcome(self.filename) = "RuntimeError" ->
            [ok |-> FALSE, files |-> fs,
             ret |-> Raise("RuntimeError", "open", "RuntimeError", self.filename)]
      [] OTHER ->
            [ok |-> FALSE, files |-> fs,
             ret |-> Raise(DatasetOutcome(self.filename), "open",
                           DatasetOutcome(self.filename), self.filename)]

\* NetCDFArray.close
close(self, fs) ==
    IF self.close THEN [fs EXCEPT !.closes = @ + 1] ELSE fs

\* The group path __getitem__ descends: nothing when group is None or empty
group_path(self) == IF self.group.none THEN <<>> ELSE self.group.v

\* netcdf = netcdf.groups[g] along the path: the first k names of the path
\* are there
descends(path, k) ==
    \A j \in 1..k : /\ SubSeq(path, 1, j - 1) \in DOMAIN Groups
                    /\ path[j] \in Groups[SubSeq(path, 1, j - 1)].groups

\* (a variant that looks the variable up in the root group)
resolve_root(self, path) ==
    IF self.ncvar # "None"
    THEN IF self.ncvar \in DOMAIN Groups[<<>>].variables
         THEN Some(Groups[<<>>].variables[self.ncvar]) ELSE None
    ELSE None

\* (a variant that looks the variable up by its ID whenever an ID is set)
resolve_by_id(self, path) ==
    IF ~self.varid.none
    THEN IF \E n \in DOMAIN Groups[path].variables :
               Groups[path].variables[n].varid = self.varid.v
         THEN Some(Groups[path].variables[
                 CHOOSE n \in DOMAIN Groups[path].variables :
                    Groups[path].variables[n].varid = self.varid.v])
         ELSE None
    ELSE IF self.ncvar \in DOMAIN Groups[path].variables
         THEN Some(Groups[path].variables[self.ncvar]) ELSE None

\* The variable by netCDF name, else by netCDF ID; None when the loop over
\* netcdf.variables.values() ends without a match (a KeyError by name is told
\* apart in getitem)
resolve(self, path) ==
    IF self.ncvar # "None"
    THEN IF self.ncvar \in DOMAIN Groups[path].variables
         THEN Some(Groups[path].variables[self.ncvar]) ELSE None
    ELSE IF \E n \in DOMAIN Groups[path].variables :
               Some(Groups[path].variables[n].varid) = self.varid
         THEN Some(Groups[path].variables[
                 CHOOSE n \in DOMAIN Groups[path].variables :
                    Some(Groups[path].variables[n].varid) = self.varid])
         ELSE None

\* variable.set_auto_mask(mask): an element that equals the fill value comes
\* out masked when mask is set
auto_mask(variable, mask, x) ==
    IF mask /\ ~variable.fill.none /\ variable.fill.v = x THEN Masked(x) ELSE El(x)

\* array = variable[indices]: None for an IndexError; a scalar string
\* variable comes out as a Python str
read_ok(variable, indices) ==
    \/ indices.all
    \/ /\ Len(variable.shape) > 0
       /\ \A k \in 1..Len(indices.at) : indices.at[k] \in 1..variable.shape[1]

read(variable, mask, indices) ==
    IF variable.kind = "str" THEN Arr("str", <<>>, <<El(variable.data[1])>>)
    ELSE IF indices.all
    THEN Arr(variable.kind, variable.shape,
             [k \in 1..Len(variable.data) |-> auto_mask(variable, mask, variable.data[k])])
    ELSE Arr(variable.kind, <<Len(indices.at)>> \o Tail(variable.shape),
             [k \in 1..Len(indices.at) |->
                 auto_mask(variable, mask, variable.data[indices.at[k]])])

\* netCDF4.chartostring over one row of characters
RECURSIVE chartostring(_)
chartostring(row) ==
    IF row = <<>> THEN "" ELSE Head(row) \o chartostring(Tail(row))

\* x.rstrip()
Blanks == {" "}
RECURSIVE rstrip(_)
rstrip(x) ==
    IF Len(x) > 0 /\ SubSeq(x, Len(x), Len(x)) \in Blanks
    THEN rstrip(SubSeq(x, 1, Len(x) - 1)) ELSE x

\* numpy.ma.masked_where(array == b"", array) and
\* numpy.ma.where(array == b"", numpy.ma.masked, array), on one element
masked_empty(e) == IF e.v = "" THEN Masked(e.v) ELSE e

\* array.squeeze()
squeeze(a) == [a EXCEPT !.shape = SelectSeq(a.shape, LAMBDA d : d # 1)]

\* Lines 247-254: the fastest varying dimension of a character array is
\* collapsed, each string is trimmed, the empty ones are masked
collapse(a) ==
    Arr("S", SubSeq(a.shape, 1, Len(a.shape) - 1),
        [k \in 1..Len(a.data) |->
            masked_empty([a.data[k] EXCEPT !.v = rstrip(chartostring(a.data[k].v))])])

\* Lines 261-266: an object array of strings becomes a string array, the
\* empty strings are masked
vlen(a) == Arr("S", a.shape, [k \in 1..Len(a.data) |-> masked_empty(a.data[k])])

\* Lines 225-268, after self.ndim was found: a Python str becomes a string
\* array and goes through neither branch
post_process(a, ndim) ==
    IF a.kind = "str"
    THEN IF ndim = 0 THEN squeeze(Arr("S", <<>>, a.data)) ELSE Arr("S", <<>>, a.data)
    ELSE IF (IF ndim = 0 THEN squeeze(a) ELSE a).kind \in {"S", "U"}
    THEN collapse(IF ndim = 0 THEN squeeze(a) ELSE a)
    ELSE IF a.kind = "O"
    THEN vlen(IF ndim = 0 THEN squeeze(a) ELSE a)
    ELSE IF ndim = 0 THEN squeeze(a) ELSE a

\* self.ndim is the length of self.shape; it fails when no shape was given
post_processed(self, a) ==
    IF self.shape.none THEN Raise("TypeError", "ndim", "None", "None")
    ELSE Returned("array", post_process(a, Len(self.shape.v)))

\* Lines 212-268, with the variable that was found (None when the loop over
\* the variables ended without one): the file is closed after the read
getitem_resolved(self, fs, indices, variable) ==
    IF variable.none
    THEN [ret |-> Raise("UnboundLocalError", "array", "None", "None"),
          files |-> close(self, fs)]
    ELSE IF ~read_ok(variable.v, indices)
    THEN [ret |-> Raise("IndexError", "read", "None", "None"), files |-> fs]
    ELSE [ret |-> post_processed(self, read(variable.v, self.mask, indices)),
          files |-> close(self, fs)]

\* Lines 197-223, with the dataset open
getitem_opened(self, fs, indices, path) ==
    IF ~descends(path, Len(path))
    THEN [ret |-> Raise("KeyError", "groups", "None", "None"), files |-> fs]
    ELSE IF self.ncvar # "None" /\ resolve(self, path).none
    THEN [ret |-> Raise("KeyError", "variables", "None", "None"), files |-> fs]
    ELSE getitem_resolved(self, fs, indices, resolve(self, path))

\* NetCDFArray.__getitem__
getitem_with(self, indices, o) ==
    IF ~o.ok THEN [ret |-> o.ret, files |-> o.files]
    ELSE getitem_opened(self, o.files, indices, group_path(self))

getitem(self, fs, indices) == getitem_with(self, indices, open(self, fs))

\* NetCDFArray.array
array(self, fs) == getitem(self, fs, Ellipsis)

\* NumpyArray(array) and the array it holds
NumpyArray(a) == [array |-> a]

\* NetCDFArray.to_memory
to_memory_of(r) ==
    IF r.ret.kind = "array"
    THEN [r EXCEPT !.ret = Returned("NumpyArray", NumpyArray(r.ret.value))]
    ELSE r

\* (a variant that brings a part of the data into memory)
to_memory_part(self, fs) == to_memory_of(getitem(self, fs, Take(<<2, 1>>)))

to_memory(self, fs) == to_memory_of(getitem(self, fs, Ellipsis))

\* shape, dtype, get_filename, get_group, get_mask, get_ncvar, get_varid and
\* file_address
Queries ==
    {"shape", "dtype", "filename", "group", "mask", "ncvar", "varid",
     "file_address"}

query(self, q) ==
    CASE q = "shape" -> Returned("shape", self.shape)
      [] q = "dtype" -> Returned("dtype", self.dtype)
      [] q = "filename" -> Returned("filename", self.filename)
      [] q = "group" -> Returned("group", self.group)
      [] q = "mask" -> Returned("mask", self.mask)
      [] q = "ncvar" -> Returned("ncvar", self.ncvar)
      [] q = "varid" -> Returned("varid", self.varid)
      [] OTHER -> Returned("file_address",
                           [filename |-> self.filename,
                            pointer |-> IF self.ncvar # "None" THEN Some(self.ncvar)
                                        ELSE self.varid])

\* The arguments of the constructor
NcVarNames == {"None", "tas", "name", "title", "absent"}
VarIds == {None, Some(0), Some(1), Some(7)}
GroupArgs == {None, Some(<<"forecast">>), Some(<<"nogroup">>), Some(<<"forecast", "model">>)}
ShapeArgs == {None, Some(<<>>), Some(<<2>>)}

\* No source, a source that is a container, a source that is not
NcNoSource == [none |-> TRUE, container |-> FALSE, components |-> NoArray]
NcSource(a) == [none |-> FALSE, container |-> TRUE, components |-> a]
NcForeign == [none |-> FALSE, container |-> FALSE, components |-> NoArray]

\* NetCDFArray(filename=..., ncvar=..., ...)
NcConstruct(filename, ncvar, varid, group, shape, mask) ==
    /\ ~nca.made
    /\ nca' = NetCDFArray__init__(filename, ncvar, varid, group, "float64",
                                  shape, mask, NcNoSource)
    /\ acc' = Access("__init__", "", Ellipsis, Returned("none", <<>>), nca, files,
                     None, None)
    /\ UNCHANGED <<files, cmp, storeVars>>

\* NetCDFArray(source=...), of the backing itself or of another object
NcConstructFrom(source) ==
    /\ nca.made
    /\ acc.op # "source"
    /\ nca' = NetCDFArray__init__("None", "None", None, None, "None", None, TRUE,
                                  source)
    /\ acc' = Access("source", "", Ellipsis, Returned("none", <<>>), nca, files,
                     None, None)
    /\ UNCHANGED <<files, cmp, storeVars>>

\* The caller asks for the file to be kept open: the close component is
\* set to False
KeepOpen ==
    /\ nca.made /\ nca.close
    /\ nca' = [nca EXCEPT !.close = FALSE]
    /\ acc' = Access("keep_open", "", Ellipsis, Returned("none", <<>>), nca, files,
                     acc.mem, acc.full)
    /\ UNCHANGED <<files, cmp, storeVars>>

\* x.shape, x.dtype, x.get_filename(), ...
Query(q) ==
    /\ nca.made
    /\ acc' = Access("query", q, Ellipsis, query(nca, q), nca, files, acc.mem,
                     acc.full)
    /\ UNCHANGED <<nca, files, cmp, storeVars>>

\* x[indices]
Fetch(indices) ==
    /\ nca.made /\ files.opens < MaxOpens
    /\ \E r \in {getitem(nca, files, indices)} :
          /\ files' = r.files
          /\ acc' = Access("getitem", "", indices, r.ret, nca, files, acc.mem,
                           IF indices.all /\ r.ret.kind = "array"
                           THEN Some(r.ret.value) ELSE acc.full)
    /\ UNCHANGED <<nca, cmp, storeVars>>

\* x.array
ArrayGet ==
    /\ nca.made /\ files.opens < MaxOpens
    /\ \E r \in {array(nca, files)} :
          /\ files' = r.files
          /\ acc' = Access("array", "", Ellipsis, r.ret, nca, files, acc.mem,
                           IF r.ret.kind = "array" THEN Some(r.ret.value)
                           ELSE acc.full)
    /\ UNCHANGED <<nca, cmp, storeVars>>

\* x.to_memory()
ToMemory ==
    /\ nca.made /\ files.opens < MaxOpens
    /\ \E r \in {to_memory(nca, files)} :
          /\ files' = r.files
          /\ acc' = Access("to_memory", "", Ellipsis, r.ret, nca, files,
                           IF r.ret.kind = "NumpyArray" THEN Some(r.ret.value)
                           ELSE acc.mem,
                           acc.full)
    /\ UNCHANGED <<nca, cmp, storeVars>>

NcNext ==
    \/ \E ncvar \in NcVarNames, varid \in VarIds, group \in GroupArgs,
          shape \in ShapeArgs, mask \in BOOLEAN :
          NcConstruct("file.nc", ncvar, varid, group, shape, mask)
    \/ \E filename \in Filenames \ {"file.nc"} :
          NcConstruct(filename, "tas", None, None, Some(<<2>>), TRUE)
    \/ NcConstructFrom(NcSource(nca))
    \/ NcConstructFrom(NcForeign)
    \/ KeepOpen
    \/ \E q \in Queries : Query(q)
    \/ \E indices \in Indices : Fetch(indices)
    \/ ArrayGet
    \/ ToMemory

SpecNc == Init /\ [][NcNext]_vars

\* ------------------------------------------------------------------------
\* The compressed backings: ragged by count (the index map is the data of
\* a Count variable) and gathered by list (the data of a List variable)
\* ------------------------------------------------------------------------
\* The fill of a position that no physical row goes to
Fill == Masked(0)

\* The physical array: its rows in storage order
PhysicalRows(base, len) == [k \in 1 .. len |-> El(base + k)]

\* The prefix sums of the count array: the number of physical rows that
\* come before those of feature i
RECURSIVE offset(_, _)
offset(count, i) == IF i = 1 THEN 0 ELSE offset(count, i - 1) + count[i - 1]

\* The number of physical rows the count array accounts for
count_sum(count) == offset(count, Len(count)) + count[Len(count)]

\* The width of the logical rows: max(count)
RECURSIVE max_count(_, _)
max_count(count, i) ==
    IF i = 1 THEN count[1]
    ELSE IF count[i] > max_count(count, i - 1) THEN count[i]
         ELSE max_count(count, i - 1)

\* (a variant that places the rows of a feature at the end of its logical row)
ragged_row_back(count, physical, i, width) ==
    [j \in 1 .. width |->
        IF j > width - count[i] THEN physical[offset(count, i) + j - (width - count[i])]
        ELSE Fill]

\* The logical row of feature i: its physical rows at the front, fill in
\* the remainder
ragged_row(count, physical, i, width) ==
    [j \in 1 .. width |->
        IF j <= count[i] THEN physical[offset(count, i) + j] ELSE Fill]

\* The features an index asks for, along an axis of length n
requested(indices, n) ==
    IF indices.all THEN [i \in 1 .. n |-> i] ELSE indices.at

in_bounds(indices, n) ==
    indices.all \/ \A k \in 1 .. Len(indices.at) : indices.at[k] \in 1 .. n

\* Ragged-by-count fetch(index)
ragged_fetch(self, indices) ==
    IF ~in_bounds(indices, self.n)
    THEN Raise("IndexError", "fetch", "", "None")
    ELSE LET req == requested(indices, self.n)
             width == max_count(self.map, Len(self.map))
         IN Returned("array",
                     [k \in 1 .. Len(req) |->
                         ragged_row(self.map, self.physical, req[k], width)])

\* The forward map is usable: every destination lies on the logical axis
\* and no two physical positions share one
list_valid(list, n) ==
    /\ \A k \in 1 .. Len(list) : list[k] \in 0 .. n - 1
    /\ \A j, k \in 1 .. Len(list) : j # k => list[j] # list[k]

\* A buffer of fill into which the first k physical values are scattered
RECURSIVE scatter(_, _, _, _)
scatter(n, list, physical, k) ==
    IF k = 0 THEN [p \in 1 .. n |-> Fill]
    ELSE [scatter(n, list, physical, k - 1) EXCEPT ![list[k] + 1] = physical[k]]

\* Gathered-by-list fetch(index)
gathered_fetch(self, indices) ==
    IF ~in_bounds(indices, self.n)
    THEN Raise("IndexError", "fetch", "", "None")
    ELSE LET req == requested(indices, self.n)
             buffer == scatter(self.n, self.map, self.physical, Len(self.map))
         IN Returned("array", [k \in 1 .. Len(req) |-> buffer[req[k]]])

\* The construction of a ragged backing from a count array and the
\* physical array it describes
RaggedArray__init__(count, physical) ==
    [NoCompressed EXCEPT !.kind = "ragged", !.map = count, !.physical = physical,
                         !.n = Len(count), !.op = "__init__",
                         !.made = Returned("RaggedArray", <<>>)]

\* (a variant that defers the validation of the list to the first fetch)
GatheredArray__init__deferred(list, physical, n) ==
    [NoCompressed EXCEPT !.kind = "gathered", !.map = list, !.physical = physical,
                         !.n = n, !.op = "__init__",
                         !.made = Returned("GatheredArray", <<>>)]

\* The construction of a gathered backing: the list is validated here
GatheredArray__init__(list, physical, n) ==
    [NoCompressed EXCEPT !.kind = "gathered", !.map = list, !.physical = physical,
                         !.n = n, !.op = "__init__",
                         !.made = IF list_valid(list, n)
                                  THEN Returned("GatheredArray", <<>>)
                                  ELSE Raise("CompressionIndexError", "__init__",
                                             "", "None")]

\* fetch(index) of either backing
compressed_fetch(self, indices) ==
    IF self.kind = "ragged" THEN ragged_fetch(self, indices)
    \* (a list that was not validated at construction fails here)
    ELSE IF list_valid(self.map, self.n) THEN gathered_fetch(self, indices)
    ELSE Raise("CompressionIndexError", "fetch", "", "None")

\* to_memory(): fetch(all), wrapped as an in-memory backing
compressed_to_memory(self) ==
    LET r == compressed_fetch(self, Ellipsis)
    IN IF r.kind = "array" THEN Returned("NumpyArray", NumpyArray(r.value)) ELSE r

\* The count arrays, the lists and the physical arrays of the calls
CountArrays ==
    UNION {[1 .. len -> 0 .. MaxCount] : len \in 1 .. MaxFeatures}
ListArrays ==
    UNION {[1 .. len -> 0 .. MaxAxis] : len \in 0 .. MaxList}
AxisLengths == {3, 5, MaxAxis}
Bases == {0, 10}

\* A ragged backing is made from a count array and as many physical rows
\* as it sums to
RaggedConstruct(count, base) ==
    /\ cmp.kind = "none"
    /\ cmp' = RaggedArray__init__(count, PhysicalRows(base, count_sum(count)))
    /\ UNCHANGED <<nca, files, acc, storeVars>>

\* A gathered backing is made from a list, as many physical values and the
\* length of the logical axis
GatheredConstruct(list, base, n) ==
    /\ cmp.kind = "none"
    /\ cmp' = GatheredArray__init__(list, PhysicalRows(base, Len(list)), n)
    /\ UNCHANGED <<nca, files, acc, storeVars>>

\* fetch(index) on a backing that was constructed
CompressedFetch(indices) ==
    /\ cmp.made.kind \in {"RaggedArray", "GatheredArray"}
    /\ cmp' = [cmp EXCEPT !.op = "fetch", !.indices = indices,
                          !.ret = compressed_fetch(cmp, indices)]
    /\ UNCHANGED <<nca, files, acc, storeVars>>

\* to_memory() on a backing that was constructed
CompressedToMemory ==
    /\ cmp.made.kind \in {"RaggedArray", "GatheredArray"}
    /\ cmp' = [cmp EXCEPT !.op = "to_memory", !.indices = Ellipsis,
                          !.ret = compressed_to_memory(cmp)]
    /\ UNCHANGED <<nca, files, acc, storeVars>>

CompressedNext ==
    \/ \E count \in CountArrays, base \in Bases : RaggedConstruct(count, base)
    \/ \E list \in ListArrays, base \in Bases, n \in AxisLengths :
          GatheredConstruct(list, base, n)
    \/ \E indices \in Indices : CompressedFetch(indices)
    \/ CompressedToMemory

SpecCompressed == Init /\ [][CompressedNext]_vars

\* ------------------------------------------------------------------------
\* Claims about the property store
\* ------------------------------------------------------------------------
\* What instance i holds: the contents of its properties, by name
ViewOf(i) == View(valHeap, dictHeap, inst[i].props)

\* The value del_property has returned is the one hist said was stored
ReturnedStored(h, r) ==
    /\ h.k = "absent" => r.kind = "none"
    /\ h.k = "copy" => r.kind = "obj" /\ r.c = h.c
    /\ h.k = "ref" => r.kind = "obj" /\ r.addr = h.a

\* C1: after any sequence of set_property, del_property and properties calls,
\* has_property(n) is true exactly when n was set, or installed by the last
\* replacement, and not deleted since; get_property(n) then returns the value
\* stored last under n (an equal copy of it, or the caller's own object when
\* it was stored with copy=False); del_property(n) returns that same value
\* and leaves has_property(n) false.
C1_RoundTrip ==
    /\ \A i \in Inst : inst[i].live =>
          \A n \in StoreNames :
             /\ has_property(dictHeap, inst[i], n) <=> hist[i][n].k # "absent"
             /\ hist[i][n].k # "absent" =>
                   ReturnedStored(hist[i][n],
                       get_property(valHeap, dictHeap, inst[i], n, NoDefault))
    /\ last.op = "del_property" =>
          /\ ReturnedStored(prior, ret)
          /\ ~has_property(dictHeap, inst[last.i], last.n)

\* A property that was set has been deleted, and the value came back
C1_Witness ==
    /\ last.op = "del_property"
    /\ prior.k = "copy"
    /\ ret.kind = "obj"
    /\ \E n \in StoreNames : n # last.n /\ has_property(dictHeap, inst["p"], n)

\* C2: for a name that is not set, get_property(name) raises AttributeError
\* (the PropertyNotFoundError kind), get_property(name, d) returns d whatever
\* d is, del_property(name) returns None, and the mapping is left as it was.
C2_Unset ==
    /\ \A i \in Inst, n \in StoreNames :
          (inst[i].live /\ ~has_property(dictHeap, inst[i], n)) =>
             /\ get_property(valHeap, dictHeap, inst[i], n, NoDefault)
                   = RetRaise("AttributeError")
             /\ \A d \in DefaultVals :
                   get_property(valHeap, dictHeap, inst[i], n, <<d>>) = RetImm(d)
             /\ del_property(valHeap, dictHeap, inst[i], n).ret = RetNone
             /\ del_property(valHeap, dictHeap, inst[i], n).dh = dictHeap
             /\ del_property(valHeap, dictHeap, inst[i], n).vh = valHeap
    /\ (last.op = "get_property" /\ prior.k = "absent") =>
          /\ last.dflt = NoDefault => ret = RetRaise("AttributeError")
          /\ last.dflt # NoDefault => ret = RetImm(last.dflt[1])
          /\ \A n \in StoreNames : has_property(dictHeap, inst[last.i], n)
                                      <=> hist[last.i][n].k # "absent"
    /\ (last.op = "del_property" /\ prior.k = "absent") => ret = RetNone

\* get_property on an unset name was given the falsy default None and
\* returned it, while another property is set
C2_Witness ==
    /\ last.op = "get_property"
    /\ prior.k = "absent"
    /\ last.dflt = <<"None">>
    /\ ret = RetImm("None")
    /\ \E n \in StoreNames : has_property(dictHeap, inst["p"], n)

\* C3: properties(replacement) returns the mapping held before the call and
\* afterwards exactly the keys and values of replacement are held;
\* properties() returns the mapping held and changes nothing.
C3_Replace ==
    [][/\ last'.op = "properties_replace" =>
             /\ ret'.kind = "map"
             /\ ret'.map = ViewOf(last'.i)
             /\ View(valHeap', dictHeap', inst'[last'.i].props) = last'.m
       /\ last'.op = "properties" =>
             /\ ret'.kind = "map"
             /\ ret'.map = ViewOf(last'.i)
             /\ View(valHeap', dictHeap', inst'[last'.i].props) = ViewOf(last'.i)]_vars

\* An empty replacement has removed every property of a container that held some
C3_Witness ==
    /\ last.op = "properties_replace"
    /\ last.m = EmptyMap
    /\ ret.kind = "map"
    /\ DOMAIN ret.map = StoreNames
    /\ ViewOf("p") = EmptyMap

\* The objects the caller still holds: the value it passed to set_property
\* and the values of the dict it passed to properties()
CallerOwned ==
    (IF callerVal = 0 THEN {} ELSE {callerVal})
    \cup (IF callerMap = 0 THEN {} ELSE Range(dictHeap[callerMap].items))

CallerMutations ==
    {"mutate_value", "mutate_map_set", "mutate_map_del", "mutate_map_value"}

\* What was stored with copy=True is an object of its own, with the content
\* it was given; the dict held is never the caller's dict
NoAliasState ==
    /\ inst["p"].props # callerMap
    /\ \A n \in StoreNames :
          /\ has_property(dictHeap, inst["p"], n) <=> hist["p"][n].k # "absent"
          /\ hist["p"][n].k = "copy" =>
                /\ dictHeap[inst["p"].props].items[n] \notin CallerOwned
                /\ get_property(valHeap, dictHeap, inst["p"], n, NoDefault).c
                      = hist["p"][n].c
          /\ (has_property(dictHeap, inst["p"], n)
                /\ dictHeap[inst["p"].props].items[n] \in CallerOwned)
                => hist["p"][n].k = "ref"

\* A change the caller makes to its own objects leaves the names held as
\* they were, and the values stored with copy=True as they were
NoAliasStep ==
    last'.op \in CallerMutations =>
       /\ DOMAIN View(valHeap', dictHeap', inst'["p"].props) = DOMAIN ViewOf("p")
       /\ \A n \in DOMAIN ViewOf("p") :
             hist["p"][n].k = "copy" =>
                View(valHeap', dictHeap', inst'["p"].props)[n] = ViewOf("p")[n]

\* C4: after set_property(name, v) or properties(mapping) with copy=True (the
\* default), a change the caller makes later to v, to the mapping or to a
\* value inside the mapping does not change what get_property and properties
\* return; the stored value is the caller's own object only if it was stored
\* with copy=False.
C4_NoAliasing == []NoAliasState /\ [][NoAliasStep]_vars

\* The caller has changed an object it stored twice: the name stored with
\* copy=True kept the old content, the name stored with copy=False follows
C4_Witness ==
    /\ last.op = "mutate_value"
    /\ \E n, m \in StoreNames :
          /\ hist["p"][n].k = "copy"
          /\ ViewOf("p")[n] = hist["p"][n].c
          /\ ViewOf("p")[n] # valHeap[callerVal]
          /\ hist["p"][m].k = "ref"
          /\ dictHeap[inst["p"].props].items[m] = callerVal

\* ------------------------------------------------------------------------
\* Claims about copies and constructions from a source
\* ------------------------------------------------------------------------
\* What can be seen of an instance: its class and what its constituents hold
ObsAt(vh, dh, in, i) ==
    [cls |-> in[i].cls,
     props |-> View(vh, dh, in[i].props),
     bounds |-> IF in[i].bounds = 0 THEN "None" ELSE vh[in[i].bounds],
     cell_type |-> in[i].cell_type,
     anc |-> IF in[i].anc = 0 THEN EmptyMap ELSE View(vh, dh, in[i].anc)]

\* The objects an instance refers to
DictsOf(in, i) == {in[i].props, in[i].anc} \ {0}
ValsOf(dh, in, i) ==
    (UNION {Range(dh[d].items) : d \in DictsOf(in, i)}) \cup ({in[i].bounds} \ {0})

SetDelOps ==
    {"set_property", "del_property", "set_bounds", "del_bounds", "set_cell_type"}

\* "p".copy() has made "q": same class, equal constituents, no object in
\* common, and "p" is as it was.  A copy without data (last'.copy is the data
\* argument) has the bounds and ancillaries without their data.
CopyStep ==
    last'.op = "copy" =>
       /\ ret'.kind # "raise"
       /\ inst'["q"].live
       /\ inst'["q"].cls = inst["p"].cls
       /\ ObsAt(valHeap', dictHeap', inst', "p") = ObsAt(valHeap, dictHeap, inst, "p")
       /\ last'.copy =>
             ObsAt(valHeap', dictHeap', inst', "q")
                = ObsAt(valHeap, dictHeap, inst, "p")
       /\ ObsAt(valHeap', dictHeap', inst', "q").props
             = ObsAt(valHeap, dictHeap, inst, "p").props
       /\ ObsAt(valHeap', dictHeap', inst', "q").cell_type
             = ObsAt(valHeap, dictHeap, inst, "p").cell_type
       /\ DictsOf(inst', "p") \cap DictsOf(inst', "q") = {}
       /\ ValsOf(dictHeap', inst', "p") \cap ValsOf(dictHeap', inst', "q") = {}

\* A set or delete call on one instance leaves the other as it was
OtherUnchanged ==
    (last'.op \in SetDelOps /\ inst[Other(last'.i)].live) =>
       ObsAt(valHeap', dictHeap', inst', Other(last'.i))
          = ObsAt(valHeap, dictHeap, inst, Other(last'.i))

\* C5: copy() returns a new instance of the same class whose properties (and,
\* for the bounds composite, bounds, cell type and ancillaries) equal those
\* of the original, leaves the original unchanged, and no set or delete call
\* made afterwards on one of the two instances shows through the other.
C5_CopyIndependent == [][CopyStep /\ OtherUnchanged]_vars

\* A property of the original was deleted after the copy was made: the copy,
\* a bounds composite with every constituent set, still has it
C5_Witness ==
    /\ last.op = "del_property" /\ last.i = "p"
    /\ inst["q"].live /\ inst["q"].made = "copy"
    /\ inst["q"].cls = "PropertiesDataBounds"
    /\ ~has_property(dictHeap, inst["p"], "foo")
    /\ ObsAt(valHeap, dictHeap, inst, "q")
          = [cls |-> "PropertiesDataBounds", props |-> [x \in {"foo"} |-> "bar"],
             bounds |-> "B1", cell_type |-> "point",
             anc |-> [x \in AncNames |-> "A1"]]

\* The constituent an accessor gives is absent from instance i
AbsentAt(vh, dh, in, i, accessor) ==
    /\ accessor = "properties" => ObsAt(vh, dh, in, i).props = EmptyMap
    /\ accessor = "get_bounds" => in[i].bounds = 0
    /\ accessor = "get_cell_type" => in[i].cell_type = "None"
    /\ accessor = "get_ancillaries" =>
          in[i].anc # 0 /\ ObsAt(vh, dh, in, i).anc = EmptyMap

\* C6: a construction from a source does not fail when the source lacks
\* properties(), get_bounds, get_cell_type or get_ancillaries; the
\* constituent of each accessor the source lacks is absent from the new
\* instance, also when the caller passed a value for it.
C6_SourceLacksAccessor ==
    [][last'.op = "construct_from" =>
          /\ ret'.kind # "raise"
          /\ inst'[last'.i].live
          /\ inst'[last'.i].made = "source"
          /\ \A accessor \in Accessors \ last'.caps :
                AbsentAt(valHeap', dictHeap', inst', last'.i, accessor)]_vars

\* A source that only provides properties(), with a value passed for every
\* constituent: the new instance has the source's properties and nothing else
C6_Witness ==
    /\ last.op = "construct_from"
    /\ last.n = "explicit"
    /\ last.caps = {"properties"}
    /\ ret.kind = "none"
    /\ ObsAt(valHeap, dictHeap, inst, "q")
          = [cls |-> "PropertiesDataBounds", props |-> [x \in {"foo"} |-> "bar"],
             bounds |-> "None", cell_type |-> "None", anc |-> EmptyMap]

\* ------------------------------------------------------------------------
\* Claims about equals
\* ------------------------------------------------------------------------
\* The names left out of the comparison
IgnoredNames ==
    {eq.ignore_properties[k] : k \in 1..Len(eq.ignore_properties)}
    \cup (IF eq.ignore_fill_value THEN {"_FillValue", "missing_value"} ELSE {})

\* x and y are close: |x - y| <= atol + rtol * |y| for two numbers, the same
\* value otherwise
Close(x, y, tol) ==
    IF x.t = "num" /\ y.t = "num"
    THEN tol.rd * Abs(x.v - y.v) <= tol.rd * tol.atol + tol.rn * Abs(y.v)
    ELSE x = y

\* other is a property container that self can be compared with
Comparable ==
    \/ IsInstance(eq.other)
    \/ eq.ignore_type /\ eq.other.kind = "Foreign"

StrippedRet ==
    equals([eq.self EXCEPT !.props = [n \in DOMAIN @ \ IgnoredNames |-> @[n]]],
           [eq.other EXCEPT !.props = [n \in DOMAIN @ \ IgnoredNames |-> @[n]]],
           eq.tol, eq.ignore_data_type, FALSE, <<>>, eq.ignore_type)

\* C8: equals(other, ignore_properties=L) gives what the comparison of the
\* two containers with every name of L deleted from both gives, whether a
\* name is in one, both or neither; ignore_fill_value=True ignores
\* '_FillValue' and 'missing_value' as well.
C8_IgnoredNames == eq.made => eq.ret = StrippedRet

\* Equal although they differ in an ignored name, in '_FillValue' (held by
\* both, with different values) and in 'missing_value' (held by one)
C8_Witness ==
    /\ eq.made /\ eq.other.kind = "Properties" /\ eq.ret = RetBool(TRUE)
    /\ eq.ignore_properties = <<"foo">> /\ eq.ignore_fill_value
    /\ eq.tol.rn = 0 /\ eq.tol.atol = 0
    /\ DOMAIN eq.self.props = EqNames
    /\ DOMAIN eq.other.props = {"foo", "_FillValue"}
    /\ eq.self.props["foo"] # eq.other.props["foo"]
    /\ eq.self.props["_FillValue"] # eq.other.props["_FillValue"]

\* C9: equals returns a boolean and never raises, whatever other is;
\* p.equals(p) and p.equals(p.copy()) are true and p.equals(an object that
\* is not a property container) is false.
C9_EqualsTotal ==
    eq.made =>
       /\ eq.ret.kind = "bool"
       /\ eq.ret.c \in {"True", "False"}
       /\ eq.other.kind \in {"self", "copy"} => eq.ret = RetBool(TRUE)
       /\ (eq.other.kind = "str" /\ ~eq.ignore_type) => eq.ret = RetBool(FALSE)

\* A container with properties was compared with a string
C9_Witness ==
    /\ eq.made /\ eq.other.kind = "str" /\ ~eq.ignore_type
    /\ DOMAIN eq.self.props = EqNames
    /\ eq.ret = RetBool(FALSE)

\* The call with the other value of ignore_data_type
FlippedRet ==
    equals(eq.self, eq.other, eq.tol, ~eq.ignore_data_type,
           eq.ignore_fill_value, eq.ignore_properties, eq.ignore_type)

NmPrefix ==
    (IF "standard_name" \in DOMAIN nm.props
     THEN <<Bare(nm.props["standard_name"])>> ELSE <<>>)
    \o (IF "cf_role" \in DOMAIN nm.props
        THEN <<KeyValue("cf_role", nm.props["cf_role"])>> ELSE <<>>)
    \o (IF "long_name" \in DOMAIN nm.props
        THEN <<KeyValue("long_name", nm.props["long_name"])>> ELSE <<>>)
    \o (IF nm.ncvar # "None" THEN <<NcVar(nm.ncvar)>> ELSE <<>>)

\* What comes after the prefix
NmTail == SubSeq(nm.out, Len(NmPrefix) + 1, Len(nm.out))

Accessed == acc.op \in {"getitem", "array", "to_memory"}

\* The handles the last call opened and the handles it closed
Opened == files.opens - acc.files0.opens
Closed == files.closes - acc.files0.closes

\* C12: with keep-open not requested, after every fetch, whether it returns
\* or fails at the group descent, the variable lookup, the read or the
\* post-processing, every handle the call opened has been closed.
C12_HandlesClosed ==
    (acc.op = "getitem" /\ acc.before.close) => Opened = Closed

\* Every group of the path is in the file
GroupsPresent(path) ==
    \A j \in 1..Len(path) : SubSeq(path, 1, j) \in DOMAIN Groups

\* The variables of the group at the path that the backing names: by its
\* name, by its ID when it has no name
Named(self, path) ==
    {v \in Range(Groups[path].variables) :
        \E n \in DOMAIN Groups[path].variables :
           /\ Groups[path].variables[n] = v
           /\ IF self.ncvar # "None" THEN n = self.ncvar
              ELSE ~self.varid.none /\ v.varid = self.varid.v}

\* The kinds of error of a fetch: a group that is not there (the KeyError of
\* netcdf.groups[g]), a variable that is not there (the KeyError of
\* netcdf.variables[ncvar]; with no name, the UnboundLocalError of the array
\* no variable gave)
GroupNotFoundKind(r) == r.kind = "raise" /\ r.exc = "KeyError" /\ r.at = "groups"
VariableNotFoundKind(r) ==
    /\ r.kind = "raise"
    /\ \/ r.exc = "KeyError" /\ r.at = "variables"
       \/ r.exc = "UnboundLocalError" /\ r.at = "array"

ResourceOpenKind(r) ==
    r.kind = "raise" /\ r.at = "open" /\ r.exc \in {"RuntimeError", "OSError"}

Opens == files'.opens # files.opens

\* The resource is opened only inside an element access
OpensInAccess ==
    [][Opens => acc'.op \in {"getitem", "array", "to_memory"}]_vars

\* After an element access of a backing that was not asked to keep the file
\* open, no handle the access opened is still open
NoHandleHeld == (Accessed /\ acc.before.close) => Opened = Closed

\* C15: constructing the backing, from fields or from a source, and asking
\* for shape, dtype, filename, group, mask, ncvar, varid or file_address
\* never opens the resource: it is opened only inside an element access
\* (fetch, array, to_memory); and no handle is held between calls.
C15_LazyOpen == OpensInAccess /\ []NoHandleHeld

\* C16: to_memory() makes one full fetch and returns a new in-memory backing
\* that holds its result; called twice on the same backing it gives equal
\* backings, equal to a full fetch of the original, and the components of
\* the original are as they were.
C16_ToMemory ==
    /\ (acc.op = "to_memory" /\ acc.ret.kind = "NumpyArray") =>
          /\ Opened = 1
          /\ nca = acc.before
          /\ acc.mem = Some(acc.ret.value)
          /\ ~acc.prev.none => acc.ret.value = acc.prev.v
    /\ (~acc.mem.none /\ ~acc.full.none) => acc.mem.v.array = acc.full.v

\* to_memory() was called a second time, after a full fetch that gave a
\* masked element
C16_Witness ==
    /\ acc.op = "to_memory" /\ acc.ret.kind = "NumpyArray"
    /\ ~acc.prev.none /\ ~acc.full.none
    /\ \E k \in 1..Len(acc.full.v.data) : acc.full.v.data[k].m

\* The variable the last fetch read
FetchedVariable ==
    CHOOSE v \in Named(acc.before, group_path(acc.before)) : TRUE

\* The place in the variable of the k-th element that was fetched
FetchedAt(k) == IF acc.indices.all THEN k ELSE acc.indices.at[k]

\* x is y without its trailing blanks
Trimmed(x, y) ==
    /\ Len(x) <= Len(y)
    /\ SubSeq(y, 1, Len(x)) = x
    /\ \A j \in Len(x) + 1..Len(y) : SubSeq(y, j, j) = " "
    /\ Len(x) > 0 => SubSeq(x, Len(x), Len(x)) # " "

\* What a fetch from storage of the given kinds returned: of a character
\* array, one string per row, the characters of the row in order without the
\* trailing blanks; no string that is empty and not masked
StringsDecoded(kinds) ==
    (/\ acc.op = "getitem" /\ acc.ret.kind = "array"
     /\ FetchedVariable.kind \in kinds) =>
       /\ acc.ret.value.kind = "S"
       /\ \A k \in 1..Len(acc.ret.value.data) :
             /\ ~(acc.ret.value.data[k].v = "" /\ ~acc.ret.value.data[k].m)
             /\ FetchedVariable.kind \in {"S", "U"} =>
                   /\ acc.ret.value.shape =
                         <<Len(acc.ret.value.data)>>
                   /\ Trimmed(acc.ret.value.data[k].v,
                              chartostring(FetchedVariable.data[FetchedAt(k)]))

\* C17: from character or string storage a fetch returns one string for each
\* element, the fastest varying dimension of characters concatenated and the
\* trailing blanks trimmed, and every element whose string is empty is
\* masked, never returned as an empty string, never an error; strings of
\* variable length are returned with the empty ones masked likewise.
C17_Strings == StringsDecoded({"S", "U", "O", "str"})

\* ------------------------------------------------------------------------
\* Claims about the bounds of the composite
\* ------------------------------------------------------------------------
\* i.del_bounds() returned the bounds i had, or None, and i has no bounds
\* now; its other constituents are as they were
DelBoundsStep ==
    last'.op = "del_bounds" =>
       /\ IF has_bounds(inst[last'.i])
          THEN ret'.kind = "obj" /\ ret'.c = valHeap[inst[last'.i].bounds]
          ELSE ret'.kind = "none"
       /\ ~has_bounds(inst'[last'.i])
       /\ ObsAt(valHeap', dictHeap', inst', last'.i)
             = [ObsAt(valHeap, dictHeap, inst, last'.i) EXCEPT !.bounds = "None"]

\* C18: del_bounds() removes the bounds: it returns the bounds that were set,
\* or None when none were, afterwards has_bounds() is false (so that a second
\* del_bounds() returns None), and the cell type and every other constituent
\* are left as they were.
C18_DelBounds == [][DelBoundsStep]_vars

\* After i.set_bounds(b, copy) i has bounds equal to b: a copy of b when
\* copy is set, b itself when it is not (the caller still holds b)
BoundsSet ==
    last.op = "set_bounds" =>
       /\ has_bounds(inst[last.i])
       /\ callerVal # 0 /\ valHeap[callerVal] = last.n
       /\ valHeap[inst[last.i].bounds] = valHeap[callerVal]
       /\ last.copy <=> inst[last.i].bounds # callerVal

\* i.get_bounds(*default) returned the bounds of i; with none set, the
\* default, and it failed when there was no default either
BoundsGot ==
    last.op = "get_bounds" =>
       IF has_bounds(inst[last.i])
       THEN ret.kind = "obj" /\ ret.addr = inst[last.i].bounds
       ELSE IF last.dflt # NoDefault THEN ret = RetImm(last.dflt[1])
       ELSE ret.kind = "raise"

\* The call after i.set_bounds(b, copy): has_bounds() is true, get_bounds()
\* returns bounds equal to b, b itself when copy is not set
BoundsRoundTrip ==
    (last.op = "set_bounds" /\ last'.i = last.i) =>
       /\ last'.op = "has_bounds" => ret' = RetBool(TRUE)
       /\ last'.op = "get_bounds" =>
             /\ ret'.kind = "obj" /\ ret'.c = last.n
             /\ callerVal' # 0 /\ valHeap'[callerVal'] = last.n
             /\ last.copy <=> ret'.addr # callerVal'

\* C19: after set_bounds(b), has_bounds() is true and get_bounds() returns
\* bounds equal to b, an independent copy when copy=True and b itself when
\* copy=False; get_bounds(default) returns the default if and only if no
\* bounds are set, and get_bounds() without a default fails when none are.
C19_BoundsRoundTrip == [](BoundsSet /\ BoundsGot) /\ [][BoundsRoundTrip]_vars

\* get_bounds() returned the object the caller had passed to
\* set_bounds(b, copy=False)
C19_Witness ==
    /\ last.op = "get_bounds" /\ last.dflt = NoDefault
    /\ ret.kind = "obj" /\ ret.addr = callerVal
    /\ ret.c = "B1"

\* The leading dimensions of a shape: all but the last
Leading(shape) == SubSeq(shape, 1, Len(shape) - 1)

\* An instance that has both data and bounds
DataAndBounds(vh, in, i) ==
    /\ in[i].live /\ in[i].data \in ShapedData
    /\ has_bounds(in[i]) /\ vh[in[i].bounds] \in ShapedBounds

\* The leading dimensions of the bounds of i are the shape of its data
Conforming(vh, in, i) ==
    DataAndBounds(vh, in, i) =>
       Leading(ShapeOf(vh[in[i].bounds])) = ShapeOf(in[i].data)

\* The statement of C20 as it was made: in every reachable state of a
\* composite that has both data and bounds the leading dimensions of the
\* bounds are the shape of the data, whatever the calls that made the state
C20_ShapeInvariant == \A i \in Inst : Conforming(valHeap, inst, i)

\* The bounds a constructor or set_bounds was passed in this step have the
\* shape of the data of the instance in their leading dimensions
PassedConforming ==
    (last'.op \in {"construct", "set_bounds"} /\ last'.n \in ShapedBounds
     /\ inst'[last'.i].data \in ShapedData) =>
       Leading(ShapeOf(last'.n)) = ShapeOf(inst'[last'.i].data)

\* C20, amended: the constructor and set_bounds compare no shapes and
\* install the bounds they are passed; from a state in which the leading
\* dimensions of the bounds of every composite with data and bounds are the
\* shape of its data, a construction or a set_bounds that is passed bounds
\* of such a shape, a del_bounds and a copy lead to a state of that kind.
C20_ShapePreserved ==
    [][((\A i \in Inst : Conforming(valHeap, inst, i)) /\ PassedConforming)
          => \A i \in Inst : Conforming(valHeap', inst', i)]_vars

\* A composite with data and bounds of the shape of its data was copied: the
\* copy has data and bounds of that shape too
C20_Witness ==
    /\ last.op = "copy"
    /\ DataAndBounds(valHeap, inst, "p") /\ DataAndBounds(valHeap, inst, "q")
    /\ Conforming(valHeap, inst, "p") /\ Conforming(valHeap, inst, "q")
    /\ inst["p"].made = "init" /\ inst["q"].made = "copy"


\* ------------------------------------------------------------------------
\* Claims about the compressed backings
\* ------------------------------------------------------------------------
\* The whole of a backing was uncompressed, by fetch(all) or by to_memory()
Uncompressed(kind) ==
    /\ cmp.kind = kind
    /\ cmp.op \in {"fetch", "to_memory"}
    /\ cmp.indices.all
UncompressedValue ==
    IF cmp.op = "to_memory" THEN cmp.ret.value.array ELSE cmp.ret.value

\* The largest count
Widest(c) == CHOOSE w \in Range(c) : \A x \in Range(c) : x <= w

\* The fronts of the first i logical rows, each as long as its count, end to end
RECURSIVE Fronts(_, _, _)
Fronts(u, c, i) ==
    IF i = 0 THEN <<>> ELSE Fronts(u, c, i - 1) \o SubSeq(u[i], 1, c[i])

\* C21: the uncompressed result of a ragged backing of count array c over
\* sum(c) physical rows has one logical row per feature, each of width
\* max(c); the fronts of the rows, c[i] long each, are the physical rows in
\* storage order (so row i holds rows offset[i] .. offset[i]+c[i]-1), every
\* position behind the front is fill, and a feature of count 0 has an
\* all-fill row.
C21_RaggedRows ==
    Uncompressed("ragged") =>
        /\ cmp.ret.kind \in {"array", "NumpyArray"}
        /\ \E u \in {UncompressedValue} :
              /\ Len(u) = Len(cmp.map)
              /\ \A i \in 1 .. Len(u) :
                    /\ Len(u[i]) = Widest(cmp.map)
                    /\ \A j \in 1 .. Len(u[i]) : j > cmp.map[i] => u[i][j] = Fill
                    /\ cmp.map[i] = 0 => \A j \in 1 .. Len(u[i]) : u[i][j] = Fill
              /\ Fronts(u, cmp.map, Len(u)) = cmp.physical

\* Counts [3, 0, 2] over rows r1 .. r5 were uncompressed to [r1, r2, r3],
\* an all-fill row and [r4, r5, fill]
C21_Witness ==
    /\ Uncompressed("ragged")
    /\ cmp.op = "fetch"
    /\ cmp.map = <<3, 0, 2>>
    /\ cmp.ret = Returned("array",
                          << <<El(1), El(2), El(3)>>, <<Fill, Fill, Fill>>,
                             <<El(4), El(5), Fill>> >>)

\* The list has no duplicate and every index lies on the logical axis
UniqueInRange(l, n) ==
    /\ Cardinality(Range(l)) = Len(l)
    /\ Range(l) \subseteq 0 .. n - 1

\* C22: the uncompressed result of a gathered backing of logical length n,
\* list l and physical values v has length n, v[k] at position l[k] for
\* every k and fill at every position that is not in l; a list with a
\* duplicate or an out-of-range index is rejected with
\* CompressionIndexError by the construction, so that no fetch is ever
\* made on it.
C22_Gathered ==
    /\ cmp.kind = "gathered" =>
          /\ UniqueInRange(cmp.map, cmp.n) => cmp.made.kind = "GatheredArray"
          /\ ~UniqueInRange(cmp.map, cmp.n) =>
                /\ cmp.made = Raise("CompressionIndexError", "__init__", "", "None")
                /\ cmp.op = "__init__"
    /\ Uncompressed("gathered") =>
          /\ cmp.ret.kind \in {"array", "NumpyArray"}
          /\ \E u \in {UncompressedValue} :
                /\ Len(u) = cmp.n
                /\ \A k \in 1 .. Len(cmp.map) : u[cmp.map[k] + 1] = cmp.physical[k]
                /\ \A p \in 1 .. cmp.n : p - 1 \notin Range(cmp.map) => u[p] = Fill

\* List [1, 3] with values a, b on an axis of length 5 was uncompressed to
\* [fill, a, fill, b, fill]
C22_Witness ==
    /\ Uncompressed("gathered")
    /\ cmp.op = "fetch"
    /\ cmp.n = 5
    /\ cmp.map = <<1, 3>>
    /\ cmp.ret = Returned("array", <<Fill, El(1), Fill, El(2), Fill>>)

\* List [1, 1] on an axis of length 3 was rejected by the construction
C22_Rejected ==
    /\ cmp.kind = "gathered"
    /\ cmp.n = 3
    /\ cmp.map = <<1, 1>>
    /\ cmp.op = "__init__"
    /\ cmp.made.kind = "raise"

\* ------------------------------------------------------------------------
\* Claims about the on-disk backing: name and ID
\* ------------------------------------------------------------------------
\* The array the last fetch returned was read from variable v with the
\* masking flag of the backing applied: numbers are the elements of v at the
\* places asked for, masked exactly where the flag is set and the element
\* is the fill value of v; strings come from a variable of strings
ReadFrom(v) ==
    IF v.kind = "f"
    THEN /\ acc.ret.value.kind = "f"
         /\ \A k \in 1 .. Len(acc.ret.value.data) :
               /\ acc.ret.value.data[k].v = v.data[FetchedAt(k)]
               /\ acc.ret.value.data[k].m =
                     (acc.before.mask /\ v.fill = Some(v.data[FetchedAt(k)]))
    ELSE acc.ret.value.kind = "S"

\* C23: a fetch of a backing that has a name resolves the variable by the
\* name alone, whatever its ID is: it fails when the name is not in the
\* group, and what it returns was read from the variable of that name; the
\* ID is used only when no name is set; in both cases the masking flag was
\* applied to the variable that was read.
C23_NamePrecedence ==
    (/\ acc.op = "getitem"
     /\ DatasetOutcome(acc.before.filename) = "opened"
     /\ GroupsPresent(group_path(acc.before))) =>
       \E vs \in {Groups[group_path(acc.before)].variables} :
          /\ acc.before.ncvar # "None" =>
                /\ acc.before.ncvar \notin DOMAIN vs => acc.ret.kind = "raise"
                /\ acc.ret.kind = "array" => ReadFrom(vs[acc.before.ncvar])
          /\ (acc.before.ncvar = "None" /\ acc.ret.kind = "array") =>
                \E n \in DOMAIN vs :
                   /\ Some(vs[n].varid) = acc.before.varid
                   /\ ReadFrom(vs[n])

\* A backing named tas, with the ID of another variable and the masking flag
\* set, returned the numbers of tas with the fill value masked
C23_Witness ==
    /\ acc.op = "getitem"
    /\ acc.before.ncvar = "tas"
    /\ acc.before.varid = Some(1)
    /\ acc.before.mask
    /\ acc.before.group = None
    /\ acc.ret = Returned("array", Arr("f", <<2>>, <<El(1), Masked(99)>>))

\* A backing with no name and the ID of tas, the masking flag not set,
\* returned the numbers of tas with nothing masked
C23_ByID ==
    /\ acc.op = "getitem"
    /\ acc.before.ncvar = "None"
    /\ acc.before.varid = Some(0)
    /\ ~acc.before.mask
    /\ acc.before.group = None
    /\ acc.ret = Returned("array", Arr("f", <<2>>, <<El(1), El(99)>>))

\* ------------------------------------------------------------------------
\* Claims about equals and names: symmetry, frame, the tail of names
\* ------------------------------------------------------------------------
\* The call the other way round, other.equals(self, ...) with the same
\* options, for an other of self's class
SwappedRet ==
    equals([kind |-> "Properties", props |-> eq.other.props],
           [kind |-> eq.other.kind, props |-> eq.self.props],
           eq.tol, eq.ignore_data_type, eq.ignore_fill_value,
           eq.ignore_properties, eq.ignore_type)

\* C24: for two property containers p and q and the same rtol, atol and
\* ignore options, p.equals(q) and q.equals(p) return the same boolean.
C24_Symmetric == (eq.made /\ IsInstance(eq.other)) => eq.ret = SwappedRet

\* C24, amended: with rtol = 0 the two calls return the same boolean.
C24_SymmetricExact ==
    (eq.made /\ IsInstance(eq.other) /\ eq.tol.rn = 0) => eq.ret = SwappedRet

\* Two containers whose values 9 and 10 differ by no more than atol were
\* found equal, and so they are the other way round
C24_Witness ==
    /\ eq.made /\ eq.other.kind = "Properties"
    /\ eq.tol.rn = 0 /\ eq.tol.atol = 1
    /\ eq.ignore_properties = <<>> /\ ~eq.ignore_fill_value
    /\ DOMAIN eq.self.props = {"foo"} /\ DOMAIN eq.other.props = {"foo"}
    /\ eq.self.props["foo"] = Num("int", 9)
    /\ eq.other.props["foo"] = Num("int", 10)
    /\ eq.ret = RetBool(TRUE)
    /\ SwappedRet = RetBool(TRUE)

\* C25: equals and names are read-only on what they are given: after
\* p.equals(q, ...) the property mappings of p and q and the caller's
\* ignore_properties are what they were before the call, for every
\* combination of the options, and after p.names(extra) so are the property
\* mapping of p and the caller's extra.
C25_ReadOnly ==
    /\ (eq # EqIdle /\ eq.made) =>
          /\ eq.after.p = eq.self.props
          /\ eq.after.q = eq.other.props
          /\ eq.after.L = eq.ignore_properties
    /\ (nm # NmIdle /\ nm.made) =>
          /\ nm.after.p = nm.props
          /\ nm.after.extra = nm.extra

\* The properties of the priority list
Priority == {"standard_name", "cf_role", "long_name"}

\* The places of the list that a property contributed: its 'key=value'
\* entries and, for standard_name, the bare value at the front
Contributed(key) ==
    {k \in 1 .. Len(nm.out) :
        \/ nm.out[k].form = "key=value" /\ nm.out[k].key = key
        \/ /\ key = "standard_name" /\ k = 1
           /\ nm.out[k] = Bare(nm.props[key])}

\* C26: in the list names() returns, the sorted 'key=value' tail holds only
\* properties that are not of the priority list: each of standard_name,
\* cf_role and long_name that is set contributes exactly one entry to the
\* whole list, and every other property exactly one 'key=value' entry.
C26_TailExclusive ==
    (nm # NmIdle /\ nm.made) =>
       /\ \A k \in 1 .. Len(NmTail) :
             NmTail[k].form = "key=value" => NmTail[k].key \notin Priority
       /\ \A key \in DOMAIN nm.props : Cardinality(Contributed(key)) = 1

====
